---- MODULE Spec2Model ----
(***************************************************************************)
(* A model of board.py: the Board class (square array, per-kind piece      *)
(* collections, side to move, en-passant target, check colour, move        *)
(* listener), the piece classes' reach() and pinned(), Board.movePGN,      *)
(* Board.initialize, Board.encode and Board.decode.  The source is         *)
(* Python 2: "/" on integers is floor division, None compares smaller than *)
(* every integer, and arithmetic on None raises TypeError.                 *)
(***************************************************************************)
EXTENDS Integers, Sequences, FiniteSets, TLC

VARIABLES pieces, objs, by_piece, to_play, en_passant_target, check, callback,
          last, left

vars == <<pieces, objs, by_piece, to_play, en_passant_target, check, callback,
          last, left>>

\* ------------------------------------------------------------------ values

WHITE == "white"
BLACK == "black"

\* Python's None, for a rank or a file (Piece.take), chosen below every
\* integer the program uses because Python 2 orders None before all numbers.
NoneRF == 0 - 1

\* Python's None for a reference to a piece: the objects are numbered from 1.
NoPiece == 0

\* Python's None for the check colour and for the en-passant target.
NoColor == "None"
NoTarget == << >>

Names == {"N", "B", "R", "Q", "P", "K"}
Colors == {WHITE, BLACK}

Abs(x) == IF x < 0 THEN 0 - x ELSE x

\* x / max(1, abs(x)) in Python 2: the sign of x.
Sign(x) == IF x < 0 THEN 0 - 1 ELSE IF x > 0 THEN 1 ELSE 0

Other(color) == IF color = WHITE THEN BLACK ELSE WHITE

\* ------------------------------------------------------------ move text

\* A move text is a sequence of one-character strings.
FileChars == <<"a", "b", "c", "d", "e", "f", "g", "h">>
RankChars == <<"1", "2", "3", "4", "5", "6", "7", "8">>

\* ord() of the characters the texts of this model are made of.
Ord(c) ==
    CASE c = "1" -> 49 [] c = "2" -> 50 [] c = "3" -> 51 [] c = "4" -> 52
      [] c = "5" -> 53 [] c = "6" -> 54 [] c = "7" -> 55 [] c = "8" -> 56
      [] c = "9" -> 57
      [] c = "a" -> 97 [] c = "b" -> 98 [] c = "c" -> 99 [] c = "d" -> 100
      [] c = "e" -> 101 [] c = "f" -> 102 [] c = "g" -> 103 [] c = "h" -> 104
      [] c = "i" -> 105 [] c = "x" -> 120
      [] c = "B" -> 66 [] c = "K" -> 75 [] c = "N" -> 78 [] c = "O" -> 79
      [] c = "P" -> 80 [] c = "Q" -> 81 [] c = "R" -> 82 [] c = "Z" -> 90
      [] c = "+" -> 43 [] c = "-" -> 45 [] c = "=" -> 61 [] c = "#" -> 35
      [] OTHER -> 0

IsDigit(c) == Ord(c) >= 48 /\ Ord(c) <= 57

\* The character at position i of text t, "" past its end.
At(t, i) == IF i >= 1 /\ i <= Len(t) THEN t[i] ELSE ""

\* The character classes of _move_pattern.
InKind(c) == c \in {"R", "N", "B", "Q", "K"}
\* [1-h1-8]: the range from "1" (49) to "h" (104), and the digits 1-8.
InModifier(c) == c /= "" /\ Ord(c) >= 49 /\ Ord(c) <= 104
InFile(c) == c /= "" /\ Ord(c) >= 97 /\ Ord(c) <= 104
InRank(c) == c /= "" /\ Ord(c) >= 49 /\ Ord(c) <= 56
InPromotion(c) == c \in {"N", "B", "R", "Q"}

\* One way of matching the three optional leading groups: g1, g2, g3 say
\* whether the group takes a character.  The result is the position of the
\* destination, or 0 when the groups or the destination do not match there.
TryGroups(t, g1, g2, g3) ==
    LET p2 == IF g1 THEN 2 ELSE 1
        p3 == IF g2 THEN p2 + 1 ELSE p2
        p4 == IF g3 THEN p3 + 1 ELSE p3
    IN  IF /\ (g1 => InKind(At(t, 1)))
           /\ (g2 => InModifier(At(t, p2)))
           /\ (g3 => At(t, p3) = "x")
           /\ InFile(At(t, p4))
           /\ InRank(At(t, p4 + 1))
        THEN p4 ELSE 0

\* The order in which the regular expression engine tries the optional
\* groups: each is greedy, and the later ones are given up first.
GroupOrder ==
    << <<TRUE, TRUE, TRUE>>, <<TRUE, TRUE, FALSE>>, <<TRUE, FALSE, TRUE>>,
       <<TRUE, FALSE, FALSE>>, <<FALSE, TRUE, TRUE>>, <<FALSE, TRUE, FALSE>>,
       <<FALSE, FALSE, TRUE>>, <<FALSE, FALSE, FALSE>> >>

\* m.group(n) of an optional group that took no part in the match: None.
\* Groups 1-3 hold their "?" inside the parentheses and are "" when they
\* match nothing; groups 5 and 6 hold it outside and are then None.
NoGroup == "None"

\* _move_pattern.match(move): the groups of the first way that matches
\* (matched = FALSE when there is none).  match() anchors the pattern at
\* the start of the text only.  promotion is the letter after "=".
Match(t) ==
    LET ways == {i \in 1..8 :
                   TryGroups(t, GroupOrder[i][1], GroupOrder[i][2],
                             GroupOrder[i][3]) /= 0}
    IN  IF ways = {}
        THEN [matched |-> FALSE, src |-> "", rf |-> "", capture |-> "",
              dest |-> <<"", "">>, promotion |-> NoGroup, check |-> NoGroup]
        ELSE
          LET w == CHOOSE i \in ways : \A j \in ways : i <= j
              g == GroupOrder[w]
              p2 == IF g[1] THEN 2 ELSE 1
              p3 == IF g[2] THEN p2 + 1 ELSE p2
              p4 == TryGroups(t, g[1], g[2], g[3])
              p5 == p4 + 2
              promo == At(t, p5) = "=" /\ InPromotion(At(t, p5 + 1))
              p6 == IF promo THEN p5 + 2 ELSE p5
          IN  [matched |-> TRUE,
               src |-> IF g[1] THEN At(t, 1) ELSE "",
               rf |-> IF g[2] THEN At(t, p2) ELSE "",
               capture |-> IF g[3] THEN "x" ELSE "",
               dest |-> <<At(t, p4), At(t, p4 + 1)>>,
               promotion |-> IF promo THEN At(t, p5 + 1) ELSE NoGroup,
               check |-> IF At(t, p6) = "+" THEN "+" ELSE NoGroup]

\* move.startswith(prefix)
StartsWith(t, prefix) ==
    /\ Len(t) >= Len(prefix)
    /\ \A i \in 1..Len(prefix) : t[i] = prefix[i]

\* Board._position_to_rf: rank from the digit, file from the letter.
PositionToRF(dest) == <<Ord(dest[2]) - 48 - 1, Ord(dest[1]) - 97>>

\* ------------------------------------------------------------ the board

\* A board value: the fields of a Board instance, the Piece objects (objs,
\* numbered in order of construction), and err, the exception that ended
\* the call ("" while none has been raised).  en_passant and pushed record
\* which branches of movePGN the call went through: the en-passant branch
\* (line 164) and the one that stores an en-passant target (line 180);
\* found is the local variable piece of movePGN, what _find_piece returned.
\* callback says whether a move listener is registered, and events is the
\* sequence of the calls made to it, each with its three arguments.
EmptyByPiece ==
    [n \in Names |->
        [c \in Colors |-> IF n = "K" THEN NoPiece ELSE << >>]]

\* Board.__init__
NewBoard ==
    [pieces |-> [i \in 0..63 |-> NoPiece],
     objs |-> << >>,
     by_piece |-> EmptyByPiece,
     to_play |-> WHITE,
     en_passant_target |-> NoTarget,
     check |-> NoColor,
     callback |-> FALSE, events |-> << >>,
     err |-> "", en_passant |-> FALSE, pushed |-> FALSE, found |-> NoPiece]

\* self.callback(piece, src, dest) when a listener is registered.
Notify(b, piece, src, dest) ==
    IF b.callback
    THEN [b EXCEPT !.events = Append(@, [piece |-> piece, src |-> src,
                                         dest |-> dest])]
    ELSE b

Raise(b, e) == [b EXCEPT !.err = e]

\* Board._test_rank_file: TRUE when it raises.  A None rank or file is
\* below 0 in Python 2.
TestRankFileRaises(rank, file) ==
    file < 0 \/ file > 7 \/ rank < 0 \/ rank > 8

\* Board._rf_to_index, for a rank and file that pass _test_rank_file.
RFToIndex(rank, file) == file * 8 + rank

\* Board.get on a (rank, file) inside the board.
Get(b, rank, file) == b.pieces[RFToIndex(rank, file)]

\* Board.get on any (rank, file): what it returns (val) or raises (err).
GetAt(b, rank, file) ==
    IF TestRankFileRaises(rank, file)
    THEN [err |-> "InvalidSquare", val |-> NoPiece]
    ELSE IF RFToIndex(rank, file) > 63
    THEN [err |-> "IndexError", val |-> NoPiece]
    ELSE [err |-> "", val |-> b.pieces[RFToIndex(rank, file)]]

\* list.remove(x): the list without the first occurrence of x.
RemoveFirst(list, x) ==
    LET at == {i \in 1..Len(list) : list[i] = x}
    IN  IF at = {} THEN list
        ELSE LET k == CHOOSE i \in at : \A j \in at : i <= j
             IN  SubSeq(list, 1, k - 1) \o SubSeq(list, k + 1, Len(list))

\* Board.put of the object id, already constructed, at (rank, file).
Put(b, id, rank, file) ==
    IF b.err /= "" THEN b
    ELSE IF TestRankFileRaises(rank, file) THEN Raise(b, "InvalidSquare")
    ELSE IF RFToIndex(rank, file) > 63 THEN Raise(b, "IndexError")
    ELSE
      LET o == b.objs[id]
          b1 == [b EXCEPT !.pieces[RFToIndex(rank, file)] = id,
                          !.objs[id].rank = rank,
                          !.objs[id].file = file]
      IN  IF o.name = "K"
          THEN IF b.by_piece["K"][o.color] /= NoPiece
               THEN Raise(b1, "DuplicateKing")
               ELSE [b1 EXCEPT !.by_piece["K"][o.color] = id]
          ELSE [b1 EXCEPT !.by_piece[o.name][o.color] = Append(@, id)]

\* Piece.__init__: construct the object and put it on the board.
NewPiece(b, name, color, rank, file) ==
    IF b.err /= "" THEN b
    ELSE Put([b EXCEPT !.objs = Append(@, [name |-> name, color |-> color,
                                           rank |-> rank, file |-> file])],
             Len(b.objs) + 1, rank, file)

\* Board.take
Take(b, rank, file) ==
    IF b.err /= "" THEN b
    ELSE IF TestRankFileRaises(rank, file) THEN Raise(b, "InvalidSquare")
    ELSE IF RFToIndex(rank, file) > 63 THEN Raise(b, "IndexError")
    ELSE
      LET i == RFToIndex(rank, file)
          piece == b.pieces[i]
          b1 == [b EXCEPT !.pieces[i] = NoPiece]
      IN  IF piece = NoPiece THEN Raise(b1, "AttributeError")
          ELSE
            LET o == b.objs[piece]
                b2 == [b1 EXCEPT !.objs[piece].rank = NoneRF,
                                 !.objs[piece].file = NoneRF]
            IN  IF o.name = "K" THEN Raise(b2, "KingRemoval")
                ELSE [b2 EXCEPT !.by_piece[o.name][o.color] =
                                    RemoveFirst(@, piece)]

\* Board.move
Move(b, rank1, file1, rank2, file2) ==
    IF b.err /= "" THEN b
    ELSE IF TestRankFileRaises(rank1, file1) THEN Raise(b, "InvalidSquare")
    ELSE IF RFToIndex(rank1, file1) > 63 THEN Raise(b, "IndexError")
    ELSE IF b.pieces[RFToIndex(rank1, file1)] = NoPiece
         THEN Raise(b, "EmptySourceSquare")
    ELSE IF TestRankFileRaises(rank2, file2) THEN Raise(b, "InvalidSquare")
    ELSE IF RFToIndex(rank2, file2) > 63 THEN Raise(b, "IndexError")
    ELSE
      LET i1 == RFToIndex(rank1, file1)
          i2 == RFToIndex(rank2, file2)
          moved == b.pieces[i1]
          b1 == [b EXCEPT !.pieces =
                    [i \in 0..63 |-> IF i = i1 THEN NoPiece
                                     ELSE IF i = i2 THEN moved
                                     ELSE b.pieces[i]]]
      IN  \* self.pieces[i2].move(rank2, file2) on an emptied square
          IF i1 = i2 THEN Raise(b1, "AttributeError")
          ELSE Notify([b1 EXCEPT !.objs[moved].rank = rank2,
                                 !.objs[moved].file = file2],
                      moved, <<rank1, file1>>, <<rank2, file2>>)

\* ------------------------------------------------------------ the pieces

\* The loops of reach() and pinned() walk from one square towards another of
\* the same rank, file or diagonal: Steps is the range of the loop counter,
\* Step(i) the square of its i-th round.
Steps(rank1, file1, rank2, file2) ==
    LET dr == Abs(rank2 - rank1)
        df == Abs(file2 - file1)
    IN  1..((IF dr > df THEN dr ELSE df) - 1)

\* No piece stands strictly between the two squares.
PathClear(b, rank1, file1, rank2, file2) ==
    LET sr == Sign(rank2 - rank1)
        sf == Sign(file2 - file1)
    IN  \A i \in Steps(rank1, file1, rank2, file2) :
            b.pieces[RFToIndex(rank1 + i * sr, file1 + i * sf)] = NoPiece

\* A variant of Pawn.reach without the double advance from the home rank.
PawnReachSingleStep(b, o, r, f, capture) ==
    IF f = NoneRF
    THEN IF capture THEN "TypeError" ELSE "False"
    ELSE IF \/ /\ o.color = WHITE
               /\ \/ (~capture /\ o.file = f /\ o.rank = r - 1)
                  \/ (capture /\ Abs(o.file - f) = 1 /\ r - o.rank = 1)
            \/ /\ o.color = BLACK
               /\ \/ (~capture /\ o.file = f /\ o.rank = r + 1)
                  \/ (capture /\ Abs(o.file - f) = 1 /\ o.rank - r = 1)
         THEN "True" ELSE "False"

\* The results of reach(): "True", "False", or the exception it raises.
\* Pawn.reach
PawnReach(b, o, r, f, capture) ==
    IF f = NoneRF
    THEN IF capture THEN "TypeError" ELSE "False"
    ELSE IF \/ /\ o.color = WHITE
               /\ \/ /\ ~capture
                     /\ o.file = f
                     /\ \/ o.rank = r - 1
                        \/ (o.rank = 1 /\ r = 3 /\ Get(b, 2, f) = NoPiece)
                  \/ (capture /\ Abs(o.file - f) = 1 /\ r - o.rank = 1)
            \/ /\ o.color = BLACK
               /\ \/ /\ ~capture
                     /\ o.file = f
                     /\ \/ o.rank = r + 1
                        \/ (o.rank = 6 /\ r = 4 /\ Get(b, 5, f) = NoPiece)
                  \/ (capture /\ Abs(o.file - f) = 1 /\ o.rank - r = 1)
         THEN "True" ELSE "False"

\* Rook.reach
RookReach(b, o, r, f) ==
    IF o.file = f
    THEN IF r = o.rank THEN "ZeroDivisionError"
         ELSE IF PathClear(b, o.rank, o.file, r, f) THEN "True" ELSE "False"
    ELSE IF o.rank = r
    THEN IF PathClear(b, o.rank, o.file, r, f) THEN "True" ELSE "False"
    ELSE "False"

\* Bishop.reach
BishopReach(b, o, r, f) ==
    IF r = NoneRF \/ f = NoneRF THEN "TypeError"
    ELSE IF Abs(o.rank - r) = Abs(o.file - f)
    THEN IF PathClear(b, o.rank, o.file, r, f) THEN "True" ELSE "False"
    ELSE "False"

\* Knight.reach
KnightReach(o, r, f) ==
    IF r = NoneRF \/ f = NoneRF THEN "TypeError"
    ELSE IF \/ (Abs(o.rank - r) = 2 /\ Abs(o.file - f) = 1)
            \/ (Abs(o.rank - r) = 1 /\ Abs(o.file - f) = 2)
    THEN "True" ELSE "False"

\* King.reach
KingReach(o, r, f) ==
    IF o.rank = NoneRF \/ r = NoneRF \/ f = NoneRF THEN "TypeError"
    ELSE IF Abs(o.rank - r) <= 1 /\ Abs(o.file - f) <= 1
    THEN "True" ELSE "False"

\* Queen.reach
QueenReach(b, o, r, f) ==
    IF o.file = f
    THEN IF r = o.rank THEN "ZeroDivisionError"
         ELSE IF PathClear(b, o.rank, o.file, r, f) THEN "True" ELSE "False"
    ELSE IF o.rank = r
    THEN IF PathClear(b, o.rank, o.file, r, f) THEN "True" ELSE "False"
    ELSE IF r = NoneRF \/ f = NoneRF THEN "TypeError"
    ELSE IF Abs(o.rank - r) = Abs(o.file - f)
    THEN IF PathClear(b, o.rank, o.file, r, f) THEN "True" ELSE "False"
    ELSE "False"

\* piece.reach((r, f), capture), dispatched on the piece's class.
Reach(b, id, r, f, capture) ==
    LET o == b.objs[id]
    IN  CASE o.name = "P" -> PawnReach(b, o, r, f, capture)
          [] o.name = "R" -> RookReach(b, o, r, f)
          [] o.name = "B" -> BishopReach(b, o, r, f)
          [] o.name = "N" -> KnightReach(o, r, f)
          [] o.name = "K" -> KingReach(o, r, f)
          [] o.name = "Q" -> QueenReach(b, o, r, f)

\* A variant of the loop that keeps the first blocker however many follow.
FirstBlocker(b, o, king) ==
    LET sr == Sign(king.rank - o.rank)
        sf == Sign(king.file - o.file)
        At2(i) == b.pieces[RFToIndex(o.rank + i * sr, o.file + i * sf)]
        blockers == {i \in Steps(o.rank, o.file, king.rank, king.file) :
                        At2(i) /= NoPiece}
    IN  IF blockers /= {}
        THEN At2(CHOOSE i \in blockers : \A j \in blockers : i <= j)
        ELSE NoPiece

\* The loop of pinned() over the squares between the piece and the king:
\* the blocker when there is exactly one, None otherwise.
OnlyBlocker(b, o, king) ==
    LET sr == Sign(king.rank - o.rank)
        sf == Sign(king.file - o.file)
        At2(i) == b.pieces[RFToIndex(o.rank + i * sr, o.file + i * sf)]
        blockers == {i \in Steps(o.rank, o.file, king.rank, king.file) :
                        At2(i) /= NoPiece}
    IN  IF Cardinality(blockers) = 1
        THEN At2(CHOOSE i \in blockers : TRUE)
        ELSE NoPiece

\* Rook.pinned, Bishop.pinned, Queen.pinned: [err, val], val the piece this
\* slider pins against the king of the other colour, or None.
Pinned(b, id) ==
    LET o == b.objs[id]
        k == b.by_piece["K"][Other(o.color)]
        none == [err |-> "", val |-> NoPiece]
    IN  IF k = NoPiece THEN [err |-> "AttributeError", val |-> NoPiece]
        ELSE
          LET king == b.objs[k]
              onFile == o.name \in {"R", "Q"} /\ o.file = king.file
              onRank == o.name \in {"R", "Q"} /\ o.rank = king.rank
          IN  IF onFile
              THEN IF king.rank = o.rank
                   THEN [err |-> "ZeroDivisionError", val |-> NoPiece]
                   ELSE [err |-> "", val |-> OnlyBlocker(b, o, king)]
              ELSE IF onRank
              THEN [err |-> "", val |-> OnlyBlocker(b, o, king)]
              ELSE IF o.name = "R" THEN none
              ELSE IF king.rank = NoneRF
              THEN [err |-> "TypeError", val |-> NoPiece]
              ELSE IF Abs(o.rank - king.rank) = Abs(o.file - king.file)
              THEN [err |-> "", val |-> OnlyBlocker(b, o, king)]
              ELSE none

\* ------------------------------------------------------- the legality engine

\* A variant of the test that makes no exception of the slider's own
\* square: a pinned piece may not capture the piece that pins it.
OffPinLineNoCapture(s, king, rank, file) ==
    LET offRookLine ==
            \/ (s.rank = king.rank /\ rank /= king.rank)
            \/ (s.file = king.file /\ file /= king.file)
        offDiagonal ==
            \/ Abs(rank - king.rank) /= Abs(file - king.file)
            \/ Sign(rank - king.rank) /= Sign(s.rank - rank)
            \/ Sign(file - king.file) /= Sign(s.file - file)
    IN  CASE s.name = "R" -> offRookLine
          [] s.name = "B" -> offDiagonal
          [] s.name = "Q" ->
                \/ offRookLine
                \/ (s.rank /= king.rank /\ s.file /= king.file
                    /\ offDiagonal)

\* The test of _get_pinned that the move to (rank, file) leaves the line
\* on which the slider s pins a piece against the king.
OffPinLine(s, king, rank, file) ==
    LET offRookLine ==
            \/ (s.rank = king.rank /\ rank /= king.rank)
            \/ (s.file = king.file /\ file /= king.file)
        offDiagonal ==
            \/ Abs(rank - king.rank) /= Abs(file - king.file)
            \/ Sign(rank - king.rank) /= Sign(s.rank - rank)
            \/ Sign(file - king.file) /= Sign(s.file - file)
        notCapture == ~(rank = s.rank /\ file = s.file)
    IN  CASE s.name = "R" -> offRookLine
          [] s.name = "B" -> notCapture /\ offDiagonal
          [] s.name = "Q" ->
                /\ notCapture
                /\ \/ offRookLine
                   \/ (s.rank /= king.rank /\ s.file /= king.file
                       /\ offDiagonal)

\* The index of the first entry of a sequence of loop tests that is not
\* "False" (the round in which the loop returns or raises), 0 when every
\* round goes by.
FirstHit(tests) ==
    LET hits == {i \in 1..Len(tests) : tests[i] /= "False"}
    IN  IF hits = {} THEN 0 ELSE CHOOSE i \in hits : \A j \in hits : i <= j

\* The loop of _get_pinned (lines 524-571) over the sliders, pinnee[i] being
\* what pinned() gives for the i-th: the first exception raised, or the set
\* of pinned pieces.
PinnedSet(b, sliders, pinnee, rank, file) ==
    LET failing == FirstHit([i \in 1..Len(sliders) |->
                                IF pinnee[i].err /= "" THEN "True" ELSE "False"])
    IN  IF failing /= 0
        THEN [err |-> pinnee[failing].err, val |-> {}]
        ELSE
          LET king == b.objs[b.by_piece["K"][b.to_play]]
          IN  [err |-> "",
               val |-> {pinnee[i].val :
                          i \in {j \in 1..Len(sliders) :
                                   /\ pinnee[j].val /= NoPiece
                                   /\ OffPinLine(b.objs[sliders[j]], king,
                                                 rank, file)}}]

\* The sliders of a colour, in the order _get_pinned visits them.
Sliders(b, color) ==
    b.by_piece["R"][color] \o b.by_piece["B"][color] \o b.by_piece["Q"][color]

\* The results of pinned() for a sequence of sliders.
Pinnees(b, sliders) == [i \in 1..Len(sliders) |-> Pinned(b, sliders[i])]

\* Board._get_pinned((rank, file)): [err, val], val the set of pinned pieces.
GetPinned(b, rank, file) ==
    PinnedSet(b, Sliders(b, Other(b.to_play)),
              Pinnees(b, Sliders(b, Other(b.to_play))), rank, file)

\* The outcome of a loop that returns the first piece of list whose test
\* is "True": that piece, None when every test is "False", and the
\* exception when a test raises before any is "True".
Select(list, tests) ==
    LET first == FirstHit(tests)
    IN  IF first = 0 THEN [err |-> "", val |-> NoPiece]
        ELSE IF tests[first] = "True" THEN [err |-> "", val |-> list[first]]
        ELSE [err |-> tests[first], val |-> NoPiece]

\* The condition of the loop of _find_piece (lines 489-497) on the piece id:
\* on the rank or file of the modifier, reaching (rank, file), not pinned.
Candidate(b, id, pinned, rank, file, modifier, capture) ==
    LET o == b.objs[id]
        hasRank == modifier /= "" /\ IsDigit(modifier)
        hasFile == modifier /= "" /\ ~IsDigit(modifier)
    IN  IF (hasRank /\ o.rank /= Ord(modifier) - 48 - 1)
           \/ (~hasRank /\ hasFile /\ o.file /= Ord(modifier) - 97)
        THEN "False"
        ELSE LET r == Reach(b, id, rank, file, capture)
             IN  IF r /= "True" THEN r
                 ELSE IF id \in pinned.val THEN "False"
                 ELSE "True"

\* The branch of _find_piece for a kind other than the King: pinned is what
\* _get_pinned returned or raised.
FindAmong(b, list, pinned, rank, file, modifier, capture) ==
    IF pinned.err /= "" THEN [err |-> pinned.err, val |-> NoPiece]
    ELSE Select(list, [i \in 1..Len(list) |->
                          Candidate(b, list[i], pinned, rank, file, modifier,
                                    capture)])

\* Board._find_piece(src, (rank, file), modifier, capture): [err, val], val
\* the piece found or None.
FindPiece(b, src, rank, file, modifier, capture) ==
    LET mrank == IF modifier /= "" /\ IsDigit(modifier)
                 THEN Ord(modifier) - 48 - 1 ELSE NoneRF
        mfile == IF modifier /= "" /\ ~IsDigit(modifier)
                 THEN Ord(modifier) - 97 ELSE NoneRF
        hasRank == modifier /= "" /\ IsDigit(modifier)
        hasFile == modifier /= "" /\ ~IsDigit(modifier)
    IN  IF \/ (hasRank /\ mrank /= 0 /\ (mrank < 0 \/ mrank > 7))
           \/ (hasFile /\ mfile /= 0 /\ (mfile < 0 \/ mfile > 7))
        \* "Bad piece identifier: %s" % dest, with dest a pair: the formatting
        \* itself raises TypeError before the ValueError is constructed.
        THEN [err |-> "TypeError", val |-> NoPiece]
        ELSE IF src /= "K"
        THEN FindAmong(b, b.by_piece[src][b.to_play],
                       GetPinned(b, rank, file), rank, file, modifier, capture)
        ELSE IF b.by_piece["K"][b.to_play] = NoPiece
        THEN [err |-> "AttributeError", val |-> NoPiece]
        ELSE Select(<<b.by_piece["K"][b.to_play]>>,
                    <<Reach(b, b.by_piece["K"][b.to_play], rank, file,
                            capture)>>)

\* ------------------------------------------------------------ movePGN

\* dict.keys() of by_piece, in the order CPython 2 keeps the six one-letter
\* keys (by hash, in a table of 32 slots: ord(key) xor 1, modulo 32).
KeysOrder == <<"B", "K", "N", "Q", "P", "R">>

\* The pieces the check validation visits, in order: every non-King
\* collection of the colour now to play.
Attackers(b) ==
    LET Lists[i \in 0..6] ==
          IF i = 0 THEN << >>
          ELSE IF KeysOrder[i] = "K" THEN Lists[i - 1]
          ELSE Lists[i - 1] \o b.by_piece[KeysOrder[i]][b.to_play]
    IN  Lists[6]

\* The loop of lines 213-219 over the pieces of list, reaches[i] being what
\* reach() gives for the i-th on the square of the King k.
StillInCheck(b, k, list, reaches) ==
    IF list = << >> THEN b
    ELSE IF k = NoPiece THEN Raise(b, "AttributeError")
    ELSE LET first == FirstHit(reaches)
         IN  IF first = 0 THEN b
             ELSE Raise(b, IF reaches[first] = "True" THEN "IllegalMove"
                           ELSE reaches[first])

\* reach((king.rank, king.file), True) for each piece of list.
ReachesOf(b, k, list) ==
    [i \in 1..Len(list) |->
        Reach(b, list[i],
              IF k = NoPiece THEN NoneRF ELSE b.objs[k].rank,
              IF k = NoPiece THEN NoneRF ELSE b.objs[k].file, TRUE)]

\* Lines 210-219: if the player was in check, make sure he isn't still.
ValidateCheck(b) ==
    IF b.err /= "" \/ b.check = NoColor THEN b
    ELSE StillInCheck(b, b.by_piece["K"][b.check], Attackers(b),
                      ReachesOf(b, b.by_piece["K"][b.check], Attackers(b)))

\* A variant of the toggle that leaves the turn with the side that moved.
ToggleTurnKept(b) == b

\* Lines 204-208: toggle whose turn it is.
ToggleTurn(b) ==
    IF b.err /= "" THEN b ELSE [b EXCEPT !.to_play = Other(@)]

\* A variant that names the side that has just moved as the one in check.
RecordCheckMover(b, marked) ==
    IF b.err /= "" THEN b
    ELSE [b EXCEPT !.check = IF marked THEN Other(b.to_play) ELSE NoColor]

\* Lines 221-225, 253-256, 280-283: record who is in check.  marked is the
\* value of the test the branch makes: check != '' on line 222, where check
\* is "+" or None, and move[-1] == '+' on lines 253 and 280.
RecordCheck(b, marked) ==
    IF b.err /= "" THEN b
    ELSE [b EXCEPT !.check = IF marked THEN b.to_play ELSE NoColor]

\* Lines 178-182: store or clear the en-passant target; id is the piece
\* _find_piece returned.
StoreTarget(b, id, rank, file) ==
    IF b.err /= "" THEN b
    ELSE
      LET o == b.objs[id]
      IN  IF o.name = "P" /\ o.file = file /\ Abs(o.rank - rank) = 2
          THEN [b EXCEPT !.en_passant_target =
                             <<rank + ((o.rank - rank) \div 2), file, rank>>,
                         !.pushed = TRUE]
          ELSE [b EXCEPT !.en_passant_target = NoTarget]

\* Lines 184-203: relocate the piece, or swap it for the promoted piece.
Relocate(b, id, rank, file, promotion) ==
    IF b.err /= "" THEN b
    ELSE
      LET o == b.objs[id]
      IN  IF promotion = NoGroup THEN Move(b, o.rank, o.file, rank, file)
          ELSE IF InPromotion(promotion)
          THEN NewPiece(Take(Notify(b, id, <<o.rank, o.file>>, <<rank, file>>),
                             o.rank, o.file),
                        promotion, b.to_play, rank, file)
          ELSE Raise(Take(Notify(b, id, <<o.rank, o.file>>, <<rank, file>>),
                          o.rank, o.file),
                     "PromotionInvalid")

\* Lines 171-225: what movePGN does with the piece _find_piece returned;
\* marker is m.group(6).
MoveFound(b, found, rank, file, capture, capture_rank, promotion, marker) ==
    IF found.err /= "" THEN Raise(b, found.err)
    ELSE IF found.val = NoPiece THEN Raise(b, "IllegalMove")
    ELSE RecordCheck(
           ValidateCheck(
             ToggleTurn(
               Relocate(
                 StoreTarget(
                   IF capture
                   THEN Take([b EXCEPT !.found = found.val],
                             capture_rank, file)
                   ELSE [b EXCEPT !.found = found.val],
                   found.val, rank, file),
                 found.val, rank, file, promotion))),
           marker /= "")

\* Lines 160-166: the capture of an empty square is an en-passant capture,
\* or is impossible.
EnPassant(b, src, rank, file, capture) ==
    /\ capture /\ Get(b, rank, file) = NoPiece /\ src = "P"
    /\ b.en_passant_target /= NoTarget
    /\ rank = b.en_passant_target[1] /\ file = b.en_passant_target[2]

\* A variant of the branch that lets a capture of an empty square go on
\* as an ordinary capture.
RegularMoveUnrefused(b, m) ==
    LET src == IF m.src = "" THEN "P" ELSE m.src
        rank == PositionToRF(m.dest)[1]
        file == PositionToRF(m.dest)[2]
        capture == m.capture /= ""
    IN  IF EnPassant(b, src, rank, file, capture)
        THEN MoveFound([b EXCEPT !.en_passant = TRUE],
                       FindPiece(b, src, rank, file, m.rf, capture),
                       rank, file, capture, b.en_passant_target[3],
                       m.promotion, m.check)
        ELSE MoveFound(b, FindPiece(b, src, rank, file, m.rf, capture),
                       rank, file, capture, rank, m.promotion, m.check)

\* Lines 143-225: the branch of movePGN for a text the pattern matches.
RegularMove(b, m) ==
    LET src == IF m.src = "" THEN "P" ELSE m.src
        rank == PositionToRF(m.dest)[1]
        file == PositionToRF(m.dest)[2]
        capture == m.capture /= ""
    IN  IF EnPassant(b, src, rank, file, capture)
        THEN MoveFound([b EXCEPT !.en_passant = TRUE],
                       FindPiece(b, src, rank, file, m.rf, capture),
                       rank, file, capture, b.en_passant_target[3],
                       m.promotion, m.check)
        ELSE IF capture /\ Get(b, rank, file) = NoPiece
        THEN Raise(b, "ImpossibleCapture")
        ELSE MoveFound(b, FindPiece(b, src, rank, file, m.rf, capture),
                       rank, file, capture, rank, m.promotion, m.check)

\* The type() tests of the castling branches: the class of the piece on a
\* square, "" for an empty one.
TypeAt(b, rank, file) ==
    IF Get(b, rank, file) = NoPiece THEN ""
    ELSE b.objs[Get(b, rank, file)].name

\* A variant of the castling branches that does not look at the squares
\* between the King and the Rook.
CastleOverPieces(b, move, rookFile) ==
    LET home == IF b.to_play = WHITE THEN 0 ELSE 7
        rookTo == IF rookFile = 0 THEN 3 ELSE 5
        kingTo == IF rookFile = 0 THEN 2 ELSE 6
    IN  IF /\ TypeAt(b, home, 4) = "K"
           /\ TypeAt(b, home, rookFile) = "R"
        THEN RecordCheck(
               ToggleTurn(Move(Move(b, home, rookFile, home, rookTo),
                               home, 4, home, kingTo)),
               move[Len(move)] = "+")
        ELSE Raise(b, "CastleUnavailable")

\* Lines 228-283: the castling branches; rookFile is 0 for O-O-O, 7 for O-O.
Castle(b, move, rookFile) ==
    LET home == IF b.to_play = WHITE THEN 0 ELSE 7
        between == IF rookFile = 0 THEN {1, 2, 3} ELSE {5, 6}
        rookTo == IF rookFile = 0 THEN 3 ELSE 5
        kingTo == IF rookFile = 0 THEN 2 ELSE 6
    IN  IF /\ TypeAt(b, home, 4) = "K"
           /\ TypeAt(b, home, rookFile) = "R"
           /\ \A f \in between : Get(b, home, f) = NoPiece
        THEN RecordCheck(
               ToggleTurn(Move(Move(b, home, rookFile, home, rookTo),
                               home, 4, home, kingTo)),
               move[Len(move)] = "+")
        ELSE Raise(b, "CastleUnavailable")

\* Board.movePGN(move); m is _move_pattern.match(move).
MovePGN(b, move, m) ==
    IF m.matched THEN RegularMove(b, m)
    ELSE IF StartsWith(move, <<"O", "-", "O", "-", "O">>)
    THEN Castle(b, move, 0)
    ELSE IF StartsWith(move, <<"O", "-", "O">>)
    THEN Castle(b, move, 7)
    ELSE Raise(b, "BadNotation")

\* Board.set_to_play
SetToPlay(b, color) == [b EXCEPT !.to_play = color]

\* ---------------------------------------------------------- encode, decode

\* The letter encode() writes for a piece, and the kind and colour decode()
\* reads from a letter: upper case for White, lower case for Black.
Letter(name, color) ==
    IF color = WHITE THEN name
    ELSE CASE name = "R" -> "r" [] name = "N" -> "n" [] name = "B" -> "b"
           [] name = "Q" -> "q" [] name = "K" -> "k" [] name = "P" -> "p"

Letters == {Letter(n, c) : n \in Names, c \in Colors}

KindOf(c) == CHOOSE n \in Names : \E col \in Colors : Letter(n, col) = c
ColorOf(c) == CHOOSE col \in Colors : Letter(KindOf(c), col) = c

\* Board.encode: one character for each slot of the square array, in order.
Encode(b) ==
    [i \in 1..64 |->
        IF b.pieces[i - 1] = NoPiece THEN "x"
        ELSE Letter(b.objs[b.pieces[i - 1]].name,
                    b.objs[b.pieces[i - 1]].color)]

\* Board._index_to_rf
IndexToRF(index) == <<index % 8, index \div 8>>

\* A piece constructor called as decode() calls it, with the board, the
\* rank, the file and the colour: every constructor (lines 760, 829, 927,
\* 1007, 1028, 1046) also requires the argument id, so the call raises
\* TypeError before the piece is constructed.
NewPieceWithoutId(b, name, color, rank, file) ==
    IF b.err /= "" THEN b ELSE Raise(b, "TypeError")

\* One round of the loop of decode (lines 607-633): the character c at
\* index i; characters that are no piece letter are skipped.
DecodeChar(b, i, c) ==
    IF b.err /= "" THEN b
    ELSE IF i > 63 THEN Raise(b, "BadIndex")
    ELSE IF c \in Letters
    THEN NewPieceWithoutId(b, KindOf(c), ColorOf(c),
                           IndexToRF(i)[1], IndexToRF(i)[2])
    ELSE b

\* The rounds of the loop of decode from index i on, b being the board
\* built so far.
RECURSIVE DecodeFrom(_, _, _)
DecodeFrom(b, encoding, i) ==
    IF b.err /= "" \/ i >= Len(encoding) THEN b
    ELSE DecodeFrom(DecodeChar(b, i, encoding[i + 1]), encoding, i + 1)

\* Board.decode(encoding): the board built, or the exception raised on the
\* way.
Decode(encoding) == DecodeFrom(NewBoard, encoding, 0)

\* ------------------------------------------------------------ positions

\* A position set up with the piece constructors, as the tests of board.py
\* do: place is a sequence of <<name, colour, rank, file>>.
Build(place) ==
    LET B[i \in 0..Len(place)] ==
          IF i = 0 THEN NewBoard
          ELSE NewPiece(B[i - 1], place[i][1], place[i][2], place[i][3],
                        place[i][4])
    IN  B[Len(place)]

\* The positions the games of Spec start from.
Scenarios ==
    << \* test_en_passant
       << <<"P", BLACK, 3, 1>>, <<"P", WHITE, 1, 0>>, <<"P", BLACK, 3, 4>>,
          <<"P", WHITE, 1, 3>>, <<"K", WHITE, 7, 0>>, <<"K", BLACK, 7, 7>> >>,
       \* test_castle, with a pawn each for a double advance and a capture
       << <<"K", WHITE, 0, 4>>, <<"R", WHITE, 0, 7>>, <<"K", BLACK, 7, 4>>,
          <<"R", BLACK, 7, 0>>, <<"P", WHITE, 1, 3>>, <<"P", BLACK, 3, 4>> >>,
       \* test_knight_capture
       << <<"N", BLACK, 2, 1>>, <<"N", WHITE, 0, 0>>, <<"N", WHITE, 4, 0>>,
          <<"K", WHITE, 7, 0>>, <<"K", BLACK, 7, 7>> >>,
       \* test_rook_pin
       << <<"K", WHITE, 3, 0>>, <<"R", WHITE, 7, 2>>, <<"R", WHITE, 3, 2>>,
          <<"K", BLACK, 0, 7>>, <<"R", BLACK, 3, 7>>, <<"P", BLACK, 5, 2>> >>,
       \* test_queen_pin
       << <<"K", WHITE, 0, 0>>, <<"B", WHITE, 1, 1>>, <<"B", WHITE, 3, 1>>,
          <<"K", BLACK, 0, 7>>, <<"Q", BLACK, 7, 7>>, <<"P", BLACK, 2, 0>> >>,
       \* test_king_capture
       << <<"P", BLACK, 4, 1>>, <<"K", WHITE, 4, 0>>, <<"K", BLACK, 4, 2>> >>,
       \* test_queen_capture, with a pawn about to promote
       << <<"Q", BLACK, 0, 0>>, <<"Q", WHITE, 3, 7>>, <<"P", WHITE, 3, 3>>,
          <<"K", WHITE, 7, 0>>, <<"K", BLACK, 7, 7>>, <<"P", WHITE, 6, 2>>,
          <<"N", BLACK, 7, 1>> >> >>

\* ------------------------------------------------------------ the texts

Opt(c) == IF c = "" THEN << >> ELSE <<c>>

\* kind, modifier, capture marker, destination, promotion, check marker
Text(k, rf, x, f, r, promo, mark) ==
    Opt(k) \o Opt(rf) \o Opt(x) \o <<FileChars[f], RankChars[r]>>
    \o (IF promo = "" THEN << >> ELSE <<"=", promo>>) \o Opt(mark)

CastleTexts ==
    { <<"O", "-", "O">>, <<"O", "-", "O", "+">>,
      <<"O", "-", "O", "-", "O">>, <<"O", "-", "O", "-", "O", "+">> }

\* Texts that are no move of the grammar.
BadTexts ==
    { <<"O", "-">>, <<"e", "9">>, <<"i", "4">>, <<"Z", "e", "4">> }

\* The texts of the games of Spec: every kind to every square, with and
\* without the capture marker; pawn and king moves with the check marker;
\* promotions on the last ranks; the castling tokens.
GameTexts ==
    {Text(k, "", x, f, r, "", "") :
        k \in {"", "R", "N", "B", "Q", "K"}, x \in {"", "x"},
        f \in 1..8, r \in 1..8}
    \cup {Text(k, "", x, f, r, "", "+") :
        k \in {"", "K"}, x \in {"", "x"}, f \in 1..8, r \in 1..8}
    \cup {Text("", "", x, f, r, promo, "") :
        x \in {"", "x"}, f \in 1..8, r \in {1, 8}, promo \in {"Q", "N"}}
    \cup CastleTexts \cup BadTexts

\* Every text with its match, computed once.
Parsed(texts) == {[move |-> t, m |-> Match(t)] : t \in texts}

GameMoves == Parsed(GameTexts)

\* --------------------------------------------------------- specification

\* The number of movePGN calls of a game of Spec.
MaxMoves == 2

Current ==
    [pieces |-> pieces, objs |-> objs, by_piece |-> by_piece,
     to_play |-> to_play, en_passant_target |-> en_passant_target,
     check |-> check, callback |-> callback, events |-> << >>,
     err |-> "", en_passant |-> FALSE, pushed |-> FALSE, found |-> NoPiece]

\* What the model remembers of the last call: the side that was to move
\* when it was made (player), how it ended (res: "ok" or the error), the
\* branch it took, whether its text declared a promotion and ended with the
\* check marker, which branches it went through (en_passant, pushed), and
\* the number of successful calls since a call last stored an en-passant
\* target, before this call (before) and after it (age); -1 when no call
\* has stored one.  With detail, also the kind, destination <<rank, file>>
\* and capture marker its text declared, whether the destination was empty
\* when it was made, the piece _find_piece selected (found), the kind its
\* promotion suffix declared (suffix, None without one) and its
\* disambiguating modifier (rf).  pinned is
\* the result of a direct call of _get_pinned, and events the calls made to
\* the listener during the call.  text is the argument of a call of decode
\* and encoded the result of a call of encode; played is the sequence of
\* the texts of the calls made so far, kept by the games that need it.
\* op is the method called and args the arguments of a direct call of get,
\* put, take or move.
NoCall ==
    [player |-> NoColor, res |-> "none", branch |-> "none",
     promotion |-> FALSE, marker |-> FALSE, en_passant |-> FALSE,
     pushed |-> FALSE, before |-> 0 - 1, age |-> 0 - 1,
     src |-> "", dest |-> << >>, capture |-> FALSE, destEmpty |-> FALSE,
     found |-> NoPiece, suffix |-> NoGroup, rf |-> "", pinned |-> {},
     events |-> << >>,
     text |-> << >>, encoded |-> << >>, played |-> << >>,
     op |-> "", args |-> << >>]

Record(b, r, move, m, detail) ==
    LET branch == IF m.matched THEN "move"
                  ELSE IF StartsWith(move, <<"O", "-", "O", "-", "O">>)
                  THEN "O-O-O"
                  ELSE IF StartsWith(move, <<"O", "-", "O">>) THEN "O-O"
                  ELSE "bad"
        rf == PositionToRF(m.dest)
        seen == detail /\ m.matched
    IN  [player |-> b.to_play,
         res |-> IF r.err = "" THEN "ok" ELSE r.err,
         branch |-> branch,
         promotion |-> m.matched /\ m.promotion /= NoGroup,
         marker |-> move[Len(move)] = "+",
         en_passant |-> r.en_passant,
         pushed |-> r.pushed,
         before |-> last.age,
         age |-> IF r.pushed THEN 0
                 ELSE IF last.age < 0 THEN last.age
                 ELSE IF r.err = "" THEN last.age + 1 ELSE last.age,
         src |-> IF ~seen THEN "" ELSE IF m.src = "" THEN "P" ELSE m.src,
         dest |-> IF seen THEN rf ELSE << >>,
         capture |-> seen /\ m.capture /= "",
         destEmpty |-> seen /\ Get(b, rf[1], rf[2]) = NoPiece,
         found |-> IF seen THEN r.found ELSE NoPiece,
         suffix |-> IF seen THEN m.promotion ELSE NoGroup,
         rf |-> IF seen THEN m.rf ELSE "",
         pinned |-> {},
         events |-> r.events,
         text |-> << >>, encoded |-> << >>, played |-> << >>,
         op |-> "movePGN", args |-> << >>]

\* The board is the board b.
Starts(b) ==
    /\ pieces = b.pieces
    /\ objs = b.objs
    /\ by_piece = b.by_piece
    /\ to_play = b.to_play
    /\ en_passant_target = b.en_passant_target
    /\ check = b.check
    /\ callback = b.callback

InitBoard(b, n) ==
    /\ Starts(b)
    /\ last = NoCall
    /\ left = n

Init == \E i \in 1..Len(Scenarios) : InitBoard(Build(Scenarios[i]), MaxMoves)

\* The board after a call is the board r that movePGN has left.  left
\* counts the calls the game has still to make.
Becomes(r, move, m, detail) ==
    /\ pieces' = r.pieces
    /\ objs' = r.objs
    /\ by_piece' = r.by_piece
    /\ to_play' = r.to_play
    /\ en_passant_target' = r.en_passant_target
    /\ check' = r.check
    /\ callback' = r.callback
    /\ last' = Record(Current, r, move, m, detail)
    /\ left' = left - 1

\* One call of movePGN(move), whatever its outcome: a call that raises
\* keeps what it had changed before raising.
Call(move, m, detail) == Becomes(MovePGN(Current, move, m), move, m, detail)

Next ==
    /\ left > 0
    /\ \E tm \in GameMoves : Call(tm.move, tm.m, FALSE)

Spec == Init /\ [][Next]_vars

\* ------------------------------------------- en-passant and castling games

\* The number of movePGN calls of a game of SpecEP.
MaxPlies == 4

\* The texts of the games of SpecEP: pawn moves and captures to the third
\* and fourth ranks of the files c, d and e, the two castling tokens, a
\* move of each King and two captures by a King.
EPTexts ==
    {Text("", "", x, f, r, "", "") :
        x \in {"", "x"}, f \in {3, 4, 5}, r \in {3, 4}}
    \cup { <<"O", "-", "O">>, <<"O", "-", "O", "-", "O">>,
           <<"K", "f", "1">>, <<"K", "d", "8">>,
           <<"K", "x", "f", "1">>, <<"K", "x", "d", "3">> }

EPMoves == Parsed(EPTexts)

\* The games of SpecEP start from the positions of test_en_passant and of
\* test_castle.
InitEP == \E i \in {1, 2} : InitBoard(Build(Scenarios[i]), MaxPlies)

NextEP ==
    /\ left > 0
    /\ \E tm \in EPMoves : Call(tm.move, tm.m, TRUE)

SpecEP == InitEP /\ [][NextEP]_vars

\* ------------------------------------------------- en-passant captures

\* The number of movePGN calls of a game of SpecPassant.
PassantCalls == 3

\* The position of test_castle with two pawns each on their home squares,
\* next to the pawn of test_en_passant that makes the double advance.
PassantPosition ==
    Scenarios[2] \o << <<"P", WHITE, 1, 4>>, <<"P", BLACK, 6, 4>>,
                       <<"P", BLACK, 6, 3>>, <<"P", WHITE, 4, 2>> >>

\* The texts of the games of SpecPassant: those of SpecEP and the pawn
\* moves and captures to the fifth and sixth ranks of the files d and e.
PassantTexts ==
    EPTexts \cup {Text("", "", x, f, r, "", "") :
                     x \in {"", "x"}, f \in {3, 4}, r \in {5, 6}}

PassantMoves == Parsed(PassantTexts)

InitPassant == InitBoard(Build(PassantPosition), PassantCalls)

NextPassant ==
    /\ left > 0
    /\ \E tm \in PassantMoves : Call(tm.move, tm.m, TRUE)

SpecPassant == InitPassant /\ [][NextPassant]_vars

\* ------------------------------------------------------- opening games

\* The pieces of initialize(), in the order it constructs them.
InitialPlace ==
    [i \in 1..16 |-> IF i % 2 = 1 THEN <<"P", WHITE, 1, (i - 1) \div 2>>
                                   ELSE <<"P", BLACK, 6, (i - 1) \div 2>>]
    \o << <<"R", WHITE, 0, 0>>, <<"R", WHITE, 0, 7>>,
          <<"R", BLACK, 7, 0>>, <<"R", BLACK, 7, 7>>,
          <<"N", WHITE, 0, 1>>, <<"N", WHITE, 0, 6>>,
          <<"N", BLACK, 7, 1>>, <<"N", BLACK, 7, 6>>,
          <<"B", WHITE, 0, 2>>, <<"B", WHITE, 0, 5>>,
          <<"B", BLACK, 7, 2>>, <<"B", BLACK, 7, 5>>,
          <<"Q", WHITE, 0, 3>>, <<"Q", BLACK, 7, 3>>,
          <<"K", WHITE, 0, 4>>, <<"K", BLACK, 7, 4>> >>

\* Board() followed by Board.initialize
Initialize == Build(InitialPlace)

\* The number of movePGN calls of a game of SpecOpening.
OpeningCalls == 5

\* The texts of the games of SpecOpening: those of test_init_and_move and
\* of the Ruy Lopez opening.
OpeningTexts ==
    { <<"d", "4">>, <<"d", "5">>, <<"N", "f", "3">>, <<"N", "c", "6">>,
      <<"e", "4">>, <<"N", "x", "d", "4">>, <<"e", "5">>,
      <<"B", "b", "5">> }

OpeningMoves == Parsed(OpeningTexts)

InitOpening == InitBoard(Initialize, OpeningCalls)

\* One call of movePGN(move) in a game that keeps the texts it has played.
Plays(r, move, m) ==
    /\ pieces' = r.pieces
    /\ objs' = r.objs
    /\ by_piece' = r.by_piece
    /\ to_play' = r.to_play
    /\ en_passant_target' = r.en_passant_target
    /\ check' = r.check
    /\ callback' = r.callback
    /\ last' = [Record(Current, r, move, m, FALSE)
                  EXCEPT !.played = Append(last.played, move)]
    /\ left' = left - 1

NextOpening ==
    /\ left > 0
    /\ \E tm \in OpeningMoves : Plays(MovePGN(Current, tm.move, tm.m),
                                      tm.move, tm.m)

SpecOpening == InitOpening /\ [][NextOpening]_vars

\* ------------------------------------------------------ texts of all sorts

\* The number of movePGN calls made on a position of SpecNotation.
NotationCalls == 2

\* The texts of SpecNotation: a move or a castling token followed by
\* nothing, by a promotion suffix, by a check marker or by other
\* characters, and moves with a character the pattern does or does not take
\* as their modifier or their first character.
NotationTexts ==
    {stem \o tail :
        stem \in { <<"d", "4">>, <<"d", "3">>, <<"K", "f", "1">>,
                   <<"c", "8">>, <<"c", "x", "b", "8">>, <<"O", "-", "O">>,
                   <<"O", "-", "O", "-", "O">> },
        tail \in { << >>, <<"+">>, <<"#">>, <<"=", "Q">>, <<"=", "K">>,
                   <<"=", "P">>, <<"=", "Q", "+">>, <<"=", "K", "+">>,
                   <<"e", "5">>, <<"+", "+">>, <<"=">>, <<"!">> }}
    \cup { <<"9", "d", "4">>, <<"Z", "d", "4">>, <<"K", "9", "f", "1">>,
           <<"i", "d", "4">>, <<"d", "9">>, <<"P", "d", "4">>,
           <<" ", "d", "4">>, <<"O", "-">>, <<"1", "d", "3">>,
           <<"d", "d", "4">> }

NotationMoves == Parsed(NotationTexts)

\* The games of SpecNotation start from the positions of test_en_passant,
\* of test_castle and of test_queen_capture with a pawn about to promote.
InitNotation ==
    \E i \in {1, 2, 7} : InitBoard(Build(Scenarios[i]), NotationCalls)

NextNotation ==
    /\ left > 0
    /\ \E tm \in NotationMoves : Plays(MovePGN(Current, tm.move, tm.m),
                                       tm.move, tm.m)

SpecNotation == InitNotation /\ [][NextNotation]_vars

\* ------------------------------------------------------------ pin positions

\* The number of movePGN calls made on a position of SpecPin.
PinCalls == 1

\* The greatest distance, in squares, between the King and the slider.
MaxDist == 3

PinKing == <<3, 3>>
FarKing == <<7, 0>>
Directions == {d \in {0 - 1, 0, 1} \X {0 - 1, 0, 1} : d /= <<0, 0>>}
SecondSquares == {<<5, 4>>}

\* The shapes of the positions of SpecPin: a black slider on one of its
\* lines to the white King (direction d, distance dist), one white piece of
\* some kind between them (distance at), and possibly a second white piece
\* of that kind away from the line, constructed before or after the first.
PinShapes ==
    {sh \in [d : Directions, slider : {"R", "B", "Q"}, dist : 2..MaxDist,
             at : 1..(MaxDist - 1), kind : Names \ {"K"},
             second : {<< >>} \cup SecondSquares, secondFirst : BOOLEAN] :
        /\ sh.at < sh.dist
        /\ sh.slider = "R" => (sh.d[1] = 0 \/ sh.d[2] = 0)
        /\ sh.slider = "B" => (sh.d[1] /= 0 /\ sh.d[2] /= 0)
        /\ sh.second = << >> => ~sh.secondFirst}

\* The position of a shape, built as the tests test_rook_pin,
\* test_bishop_pin and test_queen_pin build theirs.
PinPosition(sh) ==
    LET kings == << <<"K", WHITE, PinKing[1], PinKing[2]>>,
                    <<"K", BLACK, FarKing[1], FarKing[2]>> >>
        between == << <<sh.kind, WHITE, PinKing[1] + sh.at * sh.d[1],
                                        PinKing[2] + sh.at * sh.d[2]>> >>
        other == IF sh.second = << >> THEN << >>
                 ELSE << <<sh.kind, WHITE, sh.second[1], sh.second[2]>> >>
        pinner == << <<sh.slider, BLACK, PinKing[1] + sh.dist * sh.d[1],
                                         PinKing[2] + sh.dist * sh.d[2]>> >>
    IN  kings
        \o (IF sh.secondFirst THEN other \o between ELSE between \o other)
        \o pinner

\* The texts of SpecPin: every kind but the King to every square, with and
\* without the capture marker.
PinTexts ==
    {Text(k, "", x, f, r, "", "") :
        k \in {"", "R", "N", "B", "Q"}, x \in {"", "x"},
        f \in 1..8, r \in 1..8}

PinMoves == Parsed(PinTexts)

InitPin == \E sh \in PinShapes : InitBoard(Build(PinPosition(sh)), PinCalls)

\* A call naming a kind of piece the side to move has.
CallPin ==
    \E tm \in PinMoves :
        /\ by_piece[IF tm.m.src = "" THEN "P" ELSE tm.m.src][to_play] /= << >>
        /\ Call(tm.move, tm.m, TRUE)

NextPin ==
    /\ left > 0
    /\ CallPin

SpecPin == InitPin /\ [][NextPin]_vars

\* ------------------------------------------------------- _get_pinned alone

\* A position of SpecPin and a square <<rank, file>>, the argument of a
\* call of _get_pinned that has not been made yet.
InitPinned ==
    \E sh \in PinShapes, rank \in 0..7, file \in 0..7 :
        LET b == Build(PinPosition(sh))
        IN  /\ pieces = b.pieces
            /\ objs = b.objs
            /\ by_piece = b.by_piece
            /\ to_play = b.to_play
            /\ en_passant_target = b.en_passant_target
            /\ check = b.check
            /\ callback = b.callback
            /\ last = [NoCall EXCEPT !.branch = "rf", !.dest = <<rank, file>>]
            /\ left = 0

\* What a call of _get_pinned leaves in last: r is what it returned or
\* raised.
Returned(r) ==
    [last EXCEPT !.player = to_play,
                 !.res = IF r.err = "" THEN "ok" ELSE r.err,
                 !.branch = "_get_pinned",
                 !.pinned = r.val]

\* _get_pinned(rf) called on the position as it stands.
GetPinnedCall ==
    /\ last.branch = "rf"
    /\ last' = Returned(GetPinned(Current, last.dest[1], last.dest[2]))
    /\ UNCHANGED <<pieces, objs, by_piece, to_play, en_passant_target, check,
                   callback, left>>

SpecPinned == InitPinned /\ [][GetPinnedCall]_vars

\* ------------------------------------------------------ castling positions

\* The number of movePGN calls made on a position of SpecCastle.
CastleCalls == 2

\* What stands on a corner of the home rank of the side to move: nothing,
\* a Rook of that side, a Rook of the other side, a Bishop of that side.
CornerKinds == {"", "own", "other", "bishop"}

\* The shapes of the positions of SpecCastle, for the side to move (mover):
\* what stands on the e-file square of its home rank (nothing, its King, the
\* other King, its Queen) and on the two corners, and the file of a Knight
\* of its own on one of the other squares of the rank (-1: none).
CastleShapes ==
    [mover : Colors, king : {"", "own", "other", "queen"},
     acorner : CornerKinds, hcorner : CornerKinds,
     block : {0 - 1, 1, 2, 3, 5, 6}]

\* The position of a shape: the mover's King stands on a4 when it is not on
\* the e-file, the other King on its own e-file square when it is not on
\* the mover's, with a Rook of its side on each of its corners.
CastlePosition(sh) ==
    LET home == IF sh.mover = WHITE THEN 0 ELSE 7
        away == 7 - home
        them == Other(sh.mover)
        Corner(kind, file) ==
            CASE kind = "" -> << >>
              [] kind = "own" -> << <<"R", sh.mover, home, file>> >>
              [] kind = "other" -> << <<"R", them, home, file>> >>
              [] kind = "bishop" -> << <<"B", sh.mover, home, file>> >>
    IN  (CASE sh.king = "" ->
                << <<"K", sh.mover, 3, 0>>, <<"K", them, away, 4>> >>
           [] sh.king = "own" ->
                << <<"K", sh.mover, home, 4>>, <<"K", them, away, 4>> >>
           [] sh.king = "other" ->
                << <<"K", sh.mover, 3, 0>>, <<"K", them, home, 4>> >>
           [] sh.king = "queen" ->
                << <<"K", sh.mover, 3, 0>>, <<"K", them, away, 4>>,
                   <<"Q", sh.mover, home, 4>> >>)
        \o Corner(sh.acorner, 0) \o Corner(sh.hcorner, 7)
        \o << <<"R", them, away, 0>>, <<"R", them, away, 7>> >>
        \o (IF sh.block < 0 THEN << >>
            ELSE << <<"N", sh.mover, home, sh.block>> >>)

\* The texts of SpecCastle: the castling tokens and one that is none.
CastleMoves == Parsed(CastleTexts \cup { <<"O", "-">> })

InitCastle ==
    \E sh \in CastleShapes :
        InitBoard(SetToPlay(Build(CastlePosition(sh)), sh.mover), CastleCalls)

\* Board.add_move_listener(callback)
AddMoveListener ==
    /\ ~callback
    /\ callback' = TRUE
    /\ UNCHANGED <<pieces, objs, by_piece, to_play, en_passant_target, check,
                   last, left>>

CallCastle ==
    /\ left > 0
    /\ \E tm \in CastleMoves : Call(tm.move, tm.m, TRUE)

NextCastle == AddMoveListener \/ CallCastle

SpecCastle == InitCastle /\ [][NextCastle]_vars

\* ------------------------------------------------------ games with a listener

\* The number of movePGN calls of a game of SpecListen.
ListenCalls == 2

\* The games of SpecListen start from the positions of test_en_passant, of
\* test_castle and of test_queen_capture; a listener is registered at any
\* time, or never.
InitListen ==
    \E i \in {1, 2, 7} : InitBoard(Build(Scenarios[i]), ListenCalls)

CallListen ==
    /\ left > 0
    /\ \E tm \in GameMoves : Call(tm.move, tm.m, FALSE)

NextListen == AddMoveListener \/ CallListen

SpecListen == InitListen /\ [][NextListen]_vars

\* ------------------------------------------------------ choosing the piece

\* The number of movePGN calls made on a position of SpecFind.
FindCalls == 1

\* The positions of SpecFind: those of test_rook_capture, of
\* test_bishop_capture, of test_knight_capture and of test_rook_pin.
FindPositions ==
    << << <<"R", WHITE, 0, 0>>, <<"R", WHITE, 0, 7>>, <<"R", BLACK, 0, 3>>,
          <<"K", WHITE, 7, 0>>, <<"K", BLACK, 7, 7>> >>,
       << <<"B", BLACK, 3, 3>>, <<"B", WHITE, 0, 0>>, <<"B", WHITE, 6, 0>>,
          <<"K", WHITE, 7, 0>>, <<"K", BLACK, 7, 7>> >>,
       Scenarios[3],
       Scenarios[4] >>

\* The texts of SpecFind: a Rook, Bishop or Knight move to every square,
\* with or without the capture marker, without a modifier or with one of
\* the files a, c, h or of the ranks 1, 4, 5, 7, 8.
FindTexts ==
    {Text(k, rf, x, f, r, "", "") :
        k \in {"R", "B", "N"},
        rf \in {"", "a", "c", "h", "1", "4", "5", "7", "8"},
        x \in {"", "x"}, f \in 1..8, r \in 1..8}

FindMoves == Parsed(FindTexts)

InitFind ==
    \E i \in 1..Len(FindPositions) :
        InitBoard(Build(FindPositions[i]), FindCalls)

NextFind ==
    /\ left > 0
    /\ \E tm \in FindMoves : Call(tm.move, tm.m, TRUE)

SpecFind == InitFind /\ [][NextFind]_vars

\* ------------------------------------------------------- promotion games

\* The number of movePGN calls of a game of SpecPromo.
PromoCalls == 3

\* The position of test_queen_capture with a white Pawn on c7 next to a
\* black Knight on b8, a black Pawn on f2 and a white Rook on c1.
PromoPosition ==
    Scenarios[7] \o << <<"P", BLACK, 1, 5>>, <<"R", WHITE, 0, 2>> >>

\* The texts of SpecPromo: Pawn moves and captures to the first and last
\* ranks of the files b, c and f with each promotion suffix, a Queen move
\* with a suffix, moves of each promoted kind to squares around c8, and
\* King moves.
PromoTexts ==
    {Text("", "", x, f, r, promo, "") :
        x \in {"", "x"}, f \in {2, 3, 6}, r \in {1, 8},
        promo \in {"N", "B", "R", "Q"}}
    \cup {Text(k, "", "", f, r, "", "") :
        k \in {"N", "B", "R", "Q"}, f \in {1, 2, 3, 4, 5}, r \in {6, 7}}
    \cup { <<"Q", "h", "8", "=", "N">>, <<"Q", "x", "a", "8", "=", "R">>,
           <<"K", "g", "7">>, <<"K", "b", "7">> }

PromoMoves == Parsed(PromoTexts)

InitPromo == InitBoard(Build(PromoPosition), PromoCalls)

NextPromo ==
    /\ left > 0
    /\ \E tm \in PromoMoves : Call(tm.move, tm.m, TRUE)

SpecPromo == InitPromo /\ [][NextPromo]_vars

\* ---------------------------------------------------- encode and decode

\* The number of leading characters of an encoding that vary; the others
\* are "x".
MaxCoded == 3

\* The 64-character strings decode is called on.
Encodings ==
    {[i \in 1..64 |-> IF i <= MaxCoded THEN head[i] ELSE "x"] :
        head \in [1..MaxCoded -> Letters \cup {"x"}]}

\* A string s, the argument of a call of decode that has not been made yet.
InitCodec ==
    \E s \in Encodings :
        /\ Starts(NewBoard)
        /\ last = [NoCall EXCEPT !.branch = "encoding", !.text = s]
        /\ left = 0

\* The board is the board r that a call has returned.
Holds(r) ==
    /\ pieces' = r.pieces
    /\ objs' = r.objs
    /\ by_piece' = r.by_piece
    /\ to_play' = r.to_play
    /\ en_passant_target' = r.en_passant_target
    /\ check' = r.check
    /\ callback' = r.callback

\* b = Board.decode(s): the board is the one decode returns; when it
\* raises there is no new board.
Decoded(r) ==
    /\ IF r.err = "" THEN Holds(r) ELSE Holds(Current)
    /\ last' = [last EXCEPT !.branch = "decode",
                            !.res = IF r.err = "" THEN "ok" ELSE r.err]
    /\ UNCHANGED left

DecodeCall ==
    /\ last.branch = "encoding"
    /\ Decoded(Decode(last.text))

\* b.encode() on the board decode has returned.
EncodeCall ==
    /\ last.branch = "decode"
    /\ last.res = "ok"
    /\ last' = [last EXCEPT !.branch = "encode", !.encoded = Encode(Current)]
    /\ UNCHANGED <<pieces, objs, by_piece, to_play, en_passant_target, check,
                   callback, left>>

NextCodec == DecodeCall \/ EncodeCall

SpecCodec == InitCodec /\ [][NextCodec]_vars

\* ------------------------------------------- direct calls of the methods

\* How far outside the board the coordinates of the direct calls go.
Over == 2

Coords == (0 - Over)..(7 + Over)

\* The direct calls: get(rf), take(rf), move(src, dest), the construction
\* of a piece on rf, which puts it there, and put(piece, rf) of a piece
\* that is on the board.
ApiArgs(n) ==
    {<<op, rank, file>> : op \in {"get", "take"}, rank \in Coords,
                          file \in Coords}
    \cup {<<"move", rank1, file1, rank2, file2>> :
             rank1 \in Coords, file1 \in Coords,
             rank2 \in Coords, file2 \in Coords}
    \cup {<<"new", name, color, rank, file>> :
             name \in Names, color \in Colors, rank \in Coords,
             file \in Coords}
    \cup {<<"put", id, rank, file>> :
             id \in 1..n, rank \in Coords, file \in Coords}

\* A position, that of test_en_passant, test_rook_pin or
\* test_king_capture, and the arguments of a direct call that has not been
\* made yet.
InitApi ==
    \E i \in {1, 4, 6} :
       \E a \in ApiArgs(Len(Scenarios[i])) :
          /\ Starts(Build(Scenarios[i]))
          /\ last = [NoCall EXCEPT !.branch = "args", !.op = a[1],
                                   !.args = Tail(a)]
          /\ left = 1

\* The board is the board r a direct call has left, whether it returned or
\* raised; val is what it returned.
Leaves(r, val) ==
    /\ Holds(r)
    /\ last' = [last EXCEPT !.branch = "direct", !.player = to_play,
                            !.res = IF r.err = "" THEN "ok" ELSE r.err,
                            !.found = IF r.err = "" THEN val ELSE NoPiece]
    /\ left' = left - 1

Pending(op) == left > 0 /\ last.branch = "args" /\ last.op = op

GetCall ==
    /\ Pending("get")
    /\ LET r == GetAt(Current, last.args[1], last.args[2])
       IN  Leaves(Raise(Current, r.err), r.val)

TakeCall ==
    /\ Pending("take")
    /\ Leaves(Take(Current, last.args[1], last.args[2]),
              IF GetAt(Current, last.args[1], last.args[2]).err = ""
              THEN GetAt(Current, last.args[1], last.args[2]).val
              ELSE NoPiece)

MoveCall ==
    /\ Pending("move")
    /\ Leaves(Move(Current, last.args[1], last.args[2], last.args[3],
                   last.args[4]),
              IF GetAt(Current, last.args[3], last.args[4]).err = ""
              THEN GetAt(Current, last.args[3], last.args[4]).val
              ELSE NoPiece)

NewCall ==
    /\ Pending("new")
    /\ Leaves(NewPiece(Current, last.args[1], last.args[2], last.args[3],
                       last.args[4]), NoPiece)

PutCall ==
    /\ Pending("put")
    /\ Leaves(Put(Current, last.args[1], last.args[2], last.args[3]),
              NoPiece)

NextApi == GetCall \/ TakeCall \/ MoveCall \/ NewCall \/ PutCall

SpecApi == InitApi /\ [][NextApi]_vars

\* ------------------------------------------------------------ reach alone

\* The pieces reach() is called on: <<name, colour, rank, file>>.  Pawns of
\* both colours on their starting rank and in the middle of the board, a
\* white Rook, Bishop, Queen, King and Knight in the middle and in a corner.
ReachPieces ==
    { <<"P", WHITE, 1, 3>>, <<"P", WHITE, 3, 3>>, <<"P", BLACK, 6, 3>>,
      <<"P", BLACK, 4, 3>> }
    \cup {<<name, WHITE, sq[1], sq[2]>> :
             name \in {"R", "B", "Q", "K", "N"},
             sq \in {<<3, 3>>, <<0, 0>>}}

\* A board with a piece and at most one other, a Knight of either colour
\* on any other square, and the arguments of a call of the piece's reach()
\* that has not been made yet; only a Pawn looks at the capture argument.
InitReach ==
    \E piece \in ReachPieces :
       \E other \in { << >> } \cup
                     {<< <<"N", color, rank, file>> >> :
                         color \in Colors, rank \in 0..7, file \in 0..7},
          rank \in 0..7, file \in 0..7, capture \in BOOLEAN :
          /\ capture => piece[1] = "P"
          /\ other /= << >> =>
                <<other[1][3], other[1][4]>> /= <<piece[3], piece[4]>>
          /\ Starts(Build(<<piece>> \o other))
          /\ last = [NoCall EXCEPT !.branch = "target", !.found = 1,
                                   !.dest = <<rank, file>>,
                                   !.capture = capture]
          /\ left = 0

\* piece.reach((rank, file), capture): what it returns, or the error it
\* raises.
ReachCall ==
    /\ last.branch = "target"
    /\ last' = [last EXCEPT !.branch = "reach",
                            !.res = Reach(Current, last.found, last.dest[1],
                                          last.dest[2], last.capture)]
    /\ UNCHANGED <<pieces, objs, by_piece, to_play, en_passant_target, check,
                   callback, left>>

SpecReach == InitReach /\ [][ReachCall]_vars

\* ----------------------------------------------------------- pinned alone

\* A white King on d4, a black Rook, Bishop or Queen on a square of one of
\* the eight lines through d4 or on one of four squares off them, and up to
\* three other pieces: a black Knight on one of the files c to f, a white
\* Knight anywhere, and a white Pawn on the rank, file or diagonal between
\* the slider and the King.  The call of the slider's pinned() has not been made yet.
InitSlider ==
    \E kind \in {"R", "B", "Q"}, rank \in 0..7, file \in 0..7 :
       \E o1 \in {<< >>} \cup ((0..7) \X (2..5)),
          o2 \in {<< >>} \cup ((0..7) \X (0..7)),
          o3 \in {0} \cup Steps(rank, file, PinKing[1], PinKing[2]) :
          LET dr == rank - PinKing[1]
              df == file - PinKing[2]
              onLine == dr = 0 \/ df = 0 \/ Abs(dr) = Abs(df)
              third == <<PinKing[1] + o3 * Sign(dr),
                         PinKing[2] + o3 * Sign(df)>>
              taken == {PinKing, <<rank, file>>}
          IN  /\ <<rank, file>> /= PinKing
              /\ onLine \/ <<dr, df>> \in {<<2, 1>>, <<1, 2>>, <<0 - 2, 0 - 1>>,
                                           <<4, 0 - 1>>}
              /\ o3 /= 0 => onLine
              /\ o1 \notin taken
              /\ o2 = << >> \/ o2 \notin taken \cup {o1}
              /\ o3 /= 0 => third \notin {o1, o2}
              /\ Starts(Build(
                     << <<"K", WHITE, PinKing[1], PinKing[2]>>,
                        <<kind, BLACK, rank, file>> >>
                     \o (IF o1 = << >> THEN << >>
                         ELSE << <<"N", BLACK, o1[1], o1[2]>> >>)
                     \o (IF o2 = << >> THEN << >>
                         ELSE << <<"N", WHITE, o2[1], o2[2]>> >>)
                     \o (IF o3 = 0 THEN << >>
                         ELSE << <<"P", WHITE, third[1], third[2]>> >>)))
              /\ last = [NoCall EXCEPT !.branch = "slider", !.args = <<2>>]
              /\ left = 0

\* piece.pinned() of the slider: the piece it returns (found), or the error
\* it raises.
PinnedCall ==
    /\ last.branch = "slider"
    /\ LET r == Pinned(Current, last.args[1])
       IN  last' = [last EXCEPT !.branch = "pinned",
                                !.res = IF r.err = "" THEN "ok" ELSE r.err,
                                !.found = r.val]
    /\ UNCHANGED <<pieces, objs, by_piece, to_play, en_passant_target, check,
                   callback, left>>

SpecSlider == InitSlider /\ [][PinnedCall]_vars

\* ------------------------------------------------------------ properties

\* The position: everything a Board instance and its pieces hold.
Position == <<pieces, objs, by_piece, to_play, en_passant_target, check>>

\* The piece has a recorded square and is the one the square array holds
\* at that square's slot.
OnOwnSquare(id) ==
    /\ objs[id].rank /= NoneRF
    /\ objs[id].file /= NoneRF
    /\ pieces[RFToIndex(objs[id].rank, objs[id].file)] = id

\* The collections are exactly the non-King pieces on the board at the slot
\* of their own recorded square, each once.
Consistent ==
    /\ \A n \in Names \ {"K"} : \A c \in Colors :
          \A k \in 1..Len(by_piece[n][c]) :
             LET id == by_piece[n][c][k]
             IN  /\ objs[id].name = n
                 /\ objs[id].color = c
                 /\ OnOwnSquare(id)
    /\ \A i \in 0..63 :
          pieces[i] /= NoPiece /\ objs[pieces[i]].name /= "K" =>
             LET o == objs[pieces[i]]
                 list == by_piece[o.name][o.color]
             IN  /\ OnOwnSquare(pieces[i])
                 /\ Cardinality({k \in 1..Len(list) : list[k] = pieces[i]}) = 1

\* Each colour has its registered King, on the board at its recorded square,
\* and no other King of that colour is on the board.
KingsOk ==
    \A c \in Colors :
       LET k == by_piece["K"][c]
       IN  /\ k /= NoPiece
           /\ objs[k].name = "K"
           /\ objs[k].color = c
           /\ OnOwnSquare(k)
           /\ \A i \in 0..63 :
                 pieces[i] /= NoPiece /\ objs[pieces[i]].name = "K"
                 /\ objs[pieces[i]].color = c => pieces[i] = k

\* The square <<rank, file>> lies on the straight line through the squares
\* of the pieces k and s.
OnLine(k, s, rank, file) ==
    (rank - objs[k].rank) * (objs[s].file - objs[k].file)
        = (file - objs[k].file) * (objs[s].rank - objs[k].rank)

\* The square lies on that line strictly between the pieces k and s.
StrictlyBetween(k, s, rank, file) ==
    /\ OnLine(k, s, rank, file)
    /\ (rank - objs[k].rank) * (objs[s].rank - rank) >= 0
    /\ (file - objs[k].file) * (objs[s].file - file) >= 0
    /\ <<rank, file>> /= <<objs[k].rank, objs[k].file>>
    /\ <<rank, file>> /= <<objs[s].rank, objs[s].file>>

\* The piece s is a Rook, Bishop or Queen of the side not to move, on the
\* board, with the King of the side to move on one of its lines.
AimsAtKing(s) ==
    LET k == by_piece["K"][to_play]
        dr == Abs(objs[s].rank - objs[k].rank)
        df == Abs(objs[s].file - objs[k].file)
    IN  /\ k /= NoPiece /\ OnOwnSquare(k)
        /\ OnOwnSquare(s)
        /\ objs[s].color = Other(to_play)
        /\ \/ objs[s].name \in {"R", "Q"} /\ (dr = 0 \/ df = 0)
           \/ objs[s].name \in {"B", "Q"} /\ dr = df

\* The piece p of the side to move is the only piece standing between its
\* own King and the slider s on s's line to the King.
Pins(s, p) ==
    LET k == by_piece["K"][to_play]
    IN  /\ AimsAtKing(s)
        /\ OnOwnSquare(p)
        /\ objs[p].color = to_play
        /\ StrictlyBetween(k, s, objs[p].rank, objs[p].file)
        /\ \A i \in 0..63 :
              pieces[i] /= NoPiece /\ StrictlyBetween(k, s, i % 8, i \div 8)
                 => pieces[i] = p

Ids == 1..Len(objs)

\* C4: a piece that stands alone between its King and an enemy slider is
\* never the piece a call selects for a destination off the slider's line;
\* when the text names its kind (and declares no capture onto an empty
\* square), an unpinned piece of that kind that can reach the destination
\* is selected instead, and when there is none the call fails with
\* IllegalMove.
C4_PinnedNotSelected ==
    [][last'.branch = "move" /\ ~(last'.capture /\ last'.destEmpty) =>
          \A s \in Ids, p \in Ids :
             /\ Pins(s, p)
             /\ ~OnLine(by_piece["K"][to_play], s, last'.dest[1], last'.dest[2])
             => LET others ==
                      {q \in Ids \ {p} :
                          /\ objs[q].name = last'.src
                          /\ objs[q].color = to_play
                          /\ OnOwnSquare(q)
                          /\ \A t \in Ids : ~Pins(t, q)
                          /\ Reach(Current, q, last'.dest[1], last'.dest[2],
                                   last'.capture) = "True"}
                IN  /\ last'.found /= p
                    /\ objs[p].name = last'.src =>
                          IF others /= {} THEN last'.found \in others
                          ELSE last'.res = "IllegalMove"]_vars

\* C5: for a piece pinned by a Rook, Bishop or Queen, the pinned set that
\* _get_pinned computes for a destination on the line between the King and
\* the slider, or for the slider's own square, does not hold the piece.
C5_PinLineStaysOpen ==
    last.branch = "_get_pinned" /\ last.res = "ok" =>
        \A s \in Ids, p \in Ids :
           /\ Pins(s, p)
           /\ \/ StrictlyBetween(by_piece["K"][to_play], s,
                                  last.dest[1], last.dest[2])
              \/ last.dest = <<objs[s].rank, objs[s].file>>
           => p \notin last.pinned

\* C5, its cases: _get_pinned has been called for the square of a Queen
\* that pins a piece on a diagonal, and for a square between the King and a
\* Rook that pins one, and has left the piece out.
C5_Witness ==
    /\ last.branch = "_get_pinned"
    /\ last.res = "ok"
    /\ \E s \in Ids, p \in Ids :
          /\ Pins(s, p)
          /\ p \notin last.pinned
          /\ \/ /\ objs[s].name = "Q"
                /\ objs[s].rank /= objs[by_piece["K"][to_play]].rank
                /\ objs[s].file /= objs[by_piece["K"][to_play]].file
                /\ last.dest = <<objs[s].rank, objs[s].file>>
             \/ /\ objs[s].name = "R"
                /\ StrictlyBetween(by_piece["K"][to_play], s,
                                   last.dest[1], last.dest[2])
                /\ last.dest /= <<objs[p].rank, objs[p].file>>

\* C1: after every successful movePGN call (regular move, promotion or
\* castling) the side to move is the opposite of the side that was to move
\* when the call was made.
C1_TurnFlips ==
    last.res = "ok" => to_play = Other(last.player)

\* C1, its cases: after a first call, a second successful call of each
\* branch has handed the move back: here a castling by Black.
C1_Witness ==
    /\ last.res = "ok"
    /\ last.branch \in {"O-O", "O-O-O"}
    /\ last.player = BLACK
    /\ to_play = WHITE

\* C2: a pawn capture declared onto an empty square succeeds only as the
\* call that immediately follows the double advance, and fails with
\* ImpossibleCapture once a successful call has been made in between.
C2_EnPassantOnlyAtOnce ==
    last.branch = "move" /\ last.src = "P" /\ last.capture /\ last.destEmpty
    => /\ last.res = "ok" => last.before = 0
       /\ last.before >= 1 => last.res = "ImpossibleCapture"

\* C3: after every successful call the en-passant target is set if and only
\* if that call moved a Pawn two squares along its file, and is then the
\* jumped-over square with the rank on which the Pawn has landed.
C3_TargetIffDoubleAdvance ==
    last.res = "ok" =>
        /\ (en_passant_target /= NoTarget) = last.pushed
        /\ last.pushed =>
              LET rank == en_passant_target[3]
                  file == en_passant_target[2]
                  pawn == pieces[RFToIndex(rank, file)]
              IN  /\ pawn /= NoPiece
                  /\ objs[pawn].name = "P"
                  /\ objs[pawn].color = last.player
                  /\ rank = (IF last.player = WHITE THEN 3 ELSE 4)
                  /\ en_passant_target[1] =
                        (IF last.player = WHITE THEN 2 ELSE 5)

\* C6: a successful call made in a consistent position leaves the position
\* consistent.
C6_CollectionsExact ==
    [][Consistent /\ last'.res = "ok" => Consistent']_vars

\* C7: whatever calls are made on a position with one King per colour, each
\* colour keeps its registered King on the board at its recorded square.
C7_KingsStay == KingsOk

\* C8: a call for a regular move without promotion that fails leaves the
\* position unchanged.
C8_FailureKeepsPosition ==
    [][last'.branch = "move" /\ ~last'.promotion /\ last'.res /= "ok"
          => Position' = Position]_vars

\* C9: after every successful call the check colour is null or the side to
\* move.
C9_CheckNamesSideToMove ==
    last.res = "ok" => check \in {NoColor, to_play}

\* C9, its cases: a successful call has recorded the side to move as the
\* one in check, after a castling marked with "+".
C9_Witness ==
    /\ last.res = "ok"
    /\ last.branch \in {"O-O", "O-O-O"}
    /\ last.marker
    /\ check = to_play

\* C10: after every successful call the check colour is the side to move
\* when the text ends with "+", and null when it does not.
C10_CheckFromMarker ==
    last.res = "ok" => check = (IF last.marker THEN to_play ELSE NoColor)

\* Some piece of the other colour that is not a King stands on the board
\* and reaches the square of the King of color with capture semantics.
KingAttacked(color) ==
    LET k == by_piece["K"][color]
    IN  /\ k /= NoPiece
        /\ \E id \in Ids :
              /\ objs[id].color = Other(color)
              /\ objs[id].name /= "K"
              /\ OnOwnSquare(id)
              /\ Reach(Current, id, objs[k].rank, objs[k].file, TRUE) = "True"

\* C11: when the side that makes a regular move is the recorded check
\* colour and the move has been applied, the call fails with IllegalMove
\* exactly when a non-King piece of the opponent reaches the mover's King on
\* the board the move has left; when the check colour is null no applied
\* move fails with IllegalMove.
C11_CheckValidated ==
    [][last'.branch = "move" /\ to_play' = Other(to_play) =>
          /\ check = to_play =>
                ((last'.res = "IllegalMove") <=> KingAttacked(last.player)')
          /\ check = NoColor => last'.res /= "IllegalMove"]_vars

\* C12: decode succeeds on every 64-character string over the piece
\* letters and "x", and encode gives the string back.
C12_RoundTrip ==
    /\ last.branch = "decode" => last.res = "ok"
    /\ last.branch = "encode" => last.encoded = last.text

\* The step is a call of movePGN.
Called == left' = left - 1

\* The home rank of a colour, and the files of a castling branch: the
\* Rook's corner, the Rook's and the King's new files, the files between.
Home(color) == IF color = WHITE THEN 0 ELSE 7
CornerFile(branch) == IF branch = "O-O" THEN 7 ELSE 0
RookFile(branch) == IF branch = "O-O" THEN 5 ELSE 3
KingFile(branch) == IF branch = "O-O" THEN 6 ELSE 2
BetweenFiles(branch) == IF branch = "O-O" THEN {5, 6} ELSE {1, 2, 3}

\* The piece id stands on the square, in the square array squares and by
\* its own record in records.
StandsOn(squares, records, id, rank, file) ==
    /\ squares[RFToIndex(rank, file)] = id
    /\ records[id].rank = rank
    /\ records[id].file = file

\* C13: a successful castle leaves the mover's King and a Rook of the mover
\* on their castled squares of the mover's home rank, the e-file square and
\* the corner empty, and every other square and the collections unchanged.
C13_CastleEffect ==
    [][Called /\ last'.res = "ok" /\ last'.branch \in {"O-O", "O-O-O"} =>
          LET home == Home(to_play)
              k == by_piece["K"][to_play]
              touched == {RFToIndex(home, f) :
                            f \in {4, CornerFile(last'.branch),
                                   RookFile(last'.branch),
                                   KingFile(last'.branch)}}
          IN  /\ k /= NoPiece
              /\ StandsOn(pieces', objs', k, home, KingFile(last'.branch))
              /\ \E r \in Ids :
                    /\ objs[r].name = "R"
                    /\ objs[r].color = to_play
                    /\ StandsOn(pieces', objs', r, home, RookFile(last'.branch))
              /\ pieces'[RFToIndex(home, 4)] = NoPiece
              /\ pieces'[RFToIndex(home, CornerFile(last'.branch))] = NoPiece
              /\ \A i \in (0..63) \ touched : pieces'[i] = pieces[i]
              /\ by_piece' = by_piece]_vars

\* The kind of the piece on a square, "" for an empty square.
KindOn(rank, file) ==
    IF pieces[RFToIndex(rank, file)] = NoPiece THEN ""
    ELSE objs[pieces[RFToIndex(rank, file)]].name

\* The castling named by branch is unavailable to the side to move: no King
\* on the e-file square of its home rank, no Rook on the corner, or a piece
\* between them.
Unavailable(branch) ==
    \/ KindOn(Home(to_play), 4) /= "K"
    \/ KindOn(Home(to_play), CornerFile(branch)) /= "R"
    \/ \E f \in BetweenFiles(branch) : KindOn(Home(to_play), f) /= ""

\* C14: a castling call made when the castling is unavailable fails with
\* CastleUnavailable, leaves the position and the listener as they were and
\* calls no listener.
C14_CastleRefused ==
    [][Called /\ last'.branch \in {"O-O", "O-O-O"}
       /\ Unavailable(last'.branch) =>
          /\ last'.res = "CastleUnavailable"
          /\ Position' = Position
          /\ callback' = callback
          /\ last'.events = << >>]_vars

\* C14, its cases: with a listener registered, a castling call has failed
\* in a position where the King and the Rook are in place and a piece
\* stands between them, and has called no listener.
C14_Witness ==
    /\ callback
    /\ last.branch \in {"O-O", "O-O-O"}
    /\ last.res = "CastleUnavailable"
    /\ last.events = << >>
    /\ to_play = last.player
    /\ KindOn(Home(to_play), 4) = "K"
    /\ KindOn(Home(to_play), CornerFile(last.branch)) = "R"
    /\ \E f \in BetweenFiles(last.branch) : KindOn(Home(to_play), f) /= ""

\* The listener call e of a step names a piece that stood on e.src before
\* the step and the square e.dest on which it, or the piece it was promoted
\* to, stands after the step.
ReportsMove(e, promoted) ==
    /\ pieces[RFToIndex(e.src[1], e.src[2])] = e.piece
    /\ IF promoted
       THEN /\ pieces'[RFToIndex(e.dest[1], e.dest[2])] \notin Ids \cup {NoPiece}
            /\ objs[e.piece].name = "P"
       ELSE StandsOn(pieces', objs', e.piece, e.dest[1], e.dest[2])

\* C15: with a listener registered, a successful regular move or promotion
\* calls the listener once, with the piece moved, its source square and its
\* destination square; a successful castling calls it twice, once with the
\* Rook and once with the King; a call that fails does not call it.
C15_ListenerCalls ==
    [][Called /\ callback =>
          /\ last'.res /= "ok" => last'.events = << >>
          /\ last'.res = "ok" /\ last'.branch = "move" =>
                /\ Len(last'.events) = 1
                /\ ReportsMove(last'.events[1], last'.promotion)
          /\ last'.res = "ok" /\ last'.branch \in {"O-O", "O-O-O"} =>
                /\ Len(last'.events) = 2
                /\ {objs[last'.events[i].piece].name : i \in 1..2} = {"R", "K"}
                /\ \A i \in 1..2 : ReportsMove(last'.events[i], FALSE)]_vars

\* The move from src to dest follows the geometry of the kind name.
Geometry(name, src, dest) ==
    LET dr == Abs(dest[1] - src[1])
        df == Abs(dest[2] - src[2])
        straight == (dr = 0) /= (df = 0)
        diagonal == dr = df /\ dr > 0
    IN  CASE name = "N" -> {dr, df} = {1, 2}
          [] name = "B" -> diagonal
          [] name = "R" -> straight
          [] name = "Q" -> straight \/ diagonal
          [] OTHER -> TRUE

\* C16: after a successful move with a promotion suffix the source square
\* of the piece moved is empty and the piece is out of its collection, and
\* the destination square holds a newly created piece of the declared kind
\* and of the mover's colour, recorded on that square and registered in
\* that kind's collection; a later successful move of a piece created by a
\* promotion follows the geometry of its kind.
C16_PromotionReplaces ==
    [][Called /\ last'.res = "ok" /\ last'.branch = "move" =>
          /\ last'.suffix /= NoGroup =>
                LET p == last'.found
                    new == pieces'[RFToIndex(last'.dest[1], last'.dest[2])]
                    list == by_piece'[last'.suffix][to_play]
                IN  /\ pieces'[RFToIndex(objs[p].rank, objs[p].file)] = NoPiece
                    /\ \A k \in 1..Len(by_piece'[objs[p].name][to_play]) :
                          by_piece'[objs[p].name][to_play][k] /= p
                    /\ new \notin Ids \cup {NoPiece}
                    /\ objs'[new].name = last'.suffix
                    /\ objs'[new].color = to_play
                    /\ StandsOn(pieces', objs', new, last'.dest[1], last'.dest[2])
                    /\ Cardinality({k \in 1..Len(list) : list[k] = new}) = 1
          /\ last'.found > Len(Build(PromoPosition).objs) =>
                Geometry(objs[last'.found].name,
                         <<objs[last'.found].rank, objs[last'.found].file>>,
                         last'.dest)]_vars

\* The text of the call declared a capture of an empty square that is not
\* a Pawn capture of the jumped-over square of the en-passant target.
EmptyCapture ==
    /\ last'.branch = "move"
    /\ last'.capture
    /\ last'.destEmpty
    /\ ~(/\ last'.src = "P"
         /\ en_passant_target /= NoTarget
         /\ last'.dest = <<en_passant_target[1], en_passant_target[2]>>)

\* C17: a move declared as a capture onto an empty square fails with
\* ImpossibleCapture and leaves the position unchanged, unless it is a Pawn
\* capture of the jumped-over square of the current en-passant target.
C17_EmptyCaptureRefused ==
    [][Called /\ EmptyCapture =>
          /\ last'.res = "ImpossibleCapture"
          /\ Position' = Position]_vars

\* C17, its cases: with an en-passant target set, a Pawn capture of another
\* empty square has been refused; the target is still there.
C17_Witness ==
    /\ last.branch = "move"
    /\ last.res = "ImpossibleCapture"
    /\ last.src = "P"
    /\ last.capture
    /\ last.destEmpty
    /\ en_passant_target /= NoTarget
    /\ last.dest /= <<en_passant_target[1], en_passant_target[2]>>

\* The piece id lies on the rank or file the modifier rf names, if any.
OnModifier(id, rf) ==
    \/ rf = ""
    \/ IsDigit(rf) /\ objs[id].rank = Ord(rf) - 48 - 1
    \/ ~IsDigit(rf) /\ objs[id].file = Ord(rf) - 97

\* The pieces of the side to move, of the kind the text declares, in
\* registration order, and the positions in that order of those that lie
\* on the modifier's rank or file, reach the destination and are not in the
\* pinned set for the destination.
Declared == by_piece[last'.src][to_play]

Eligible ==
    {i \in 1..Len(Declared) :
        /\ OnModifier(Declared[i], last'.rf)
        /\ Reach(Current, Declared[i], last'.dest[1], last'.dest[2],
                 last'.capture) = "True"
        /\ Declared[i] \notin
              GetPinned(Current, last'.dest[1], last'.dest[2]).val}

\* C18: for a move of a kind other than the King that is not refused as an
\* impossible capture, the piece selected is the first eligible piece of
\* the declared kind in registration order; when there is none the call
\* fails with IllegalMove and the position is unchanged.
C18_FirstEligibleMoves ==
    [][Called /\ last'.branch = "move" /\ last'.src /= "K"
       /\ last'.res /= "ImpossibleCapture" =>
          IF Eligible = {}
          THEN last'.res = "IllegalMove" /\ Position' = Position
          ELSE /\ last'.found =
                     Declared[CHOOSE i \in Eligible : \A j \in Eligible : i <= j]
               /\ last'.res = "ok" =>
                     StandsOn(pieces', objs', last'.found,
                              last'.dest[1], last'.dest[2])]_vars

\* The piece on the landing square the en-passant target records.
Landed == pieces[RFToIndex(en_passant_target[3], en_passant_target[2])]

\* C19: a successful en-passant capture leaves the capturing Pawn on the
\* jumped-over square of the en-passant target and removes, from the board
\* and from its collection, the piece on the landing square the target
\* records; that piece is the enemy Pawn that made the double advance, and
\* the pieces of the destination rank stay where they were.
C19_EnPassantEffect ==
    [][Called /\ last'.en_passant /\ last'.res = "ok" =>
          /\ StandsOn(pieces', objs', last'.found,
                      en_passant_target[1], en_passant_target[2])
          /\ Landed /= NoPiece
          /\ objs[Landed].name = "P"
          /\ objs[Landed].color = Other(last'.player)
          /\ last.pushed => Landed = last.found
          /\ pieces'[RFToIndex(en_passant_target[3],
                               en_passant_target[2])] = NoPiece
          /\ \A i \in 1..Len(by_piece'["P"][objs[Landed].color]) :
                by_piece'["P"][objs[Landed].color][i] /= Landed
          /\ \A f \in 0..7 :
                f /= en_passant_target[2] =>
                   pieces'[RFToIndex(en_passant_target[1], f)] =
                      pieces[RFToIndex(en_passant_target[1], f)]]_vars

\* The Ruy Lopez opening: e4, e5, Nf3, Nc6, Bb5.
RuyLopez ==
    << <<"e", "4">>, <<"e", "5">>, <<"N", "f", "3">>, <<"N", "c", "6">>,
       <<"B", "b", "5">> >>

BackRank == <<"R", "N", "B", "Q", "K", "B", "N", "R">>

\* The kind and colour on a square after the Ruy Lopez opening, << >> for
\* an empty square.
AfterRuyLopez(rank, file) ==
    IF <<rank, file>> \in {<<1, 4>>, <<6, 4>>, <<0, 6>>, <<7, 1>>, <<0, 5>>}
    THEN << >>
    ELSE IF <<rank, file>> = <<3, 4>> THEN <<"P", WHITE>>
    ELSE IF <<rank, file>> = <<4, 4>> THEN <<"P", BLACK>>
    ELSE IF <<rank, file>> = <<2, 5>> THEN <<"N", WHITE>>
    ELSE IF <<rank, file>> = <<5, 2>> THEN <<"N", BLACK>>
    ELSE IF <<rank, file>> = <<4, 1>> THEN <<"B", WHITE>>
    ELSE IF rank = 0 THEN <<BackRank[file + 1], WHITE>>
    ELSE IF rank = 1 THEN <<"P", WHITE>>
    ELSE IF rank = 6 THEN <<"P", BLACK>>
    ELSE IF rank = 7 THEN <<BackRank[file + 1], BLACK>>
    ELSE << >>

\* The kind and colour of the piece on a square of the board.
Occupant(rank, file) ==
    LET id == pieces[RFToIndex(rank, file)]
    IN  IF id = NoPiece THEN << >> ELSE <<objs[id].name, objs[id].color>>

\* C20: from the position of initialize(), each of the calls e4, e5, Nf3,
\* Nc6, Bb5 made in this order succeeds, and after the last one every
\* square holds what the Ruy Lopez position has there, each piece recorded
\* on the square it stands on.
C20_RuyLopezPlays ==
    /\ (/\ last.played /= << >>
        /\ Len(last.played) <= Len(RuyLopez)
        /\ last.played = SubSeq(RuyLopez, 1, Len(last.played)))
       => last.res = "ok"
    /\ last.played = RuyLopez =>
          \A rank \in 0..7, file \in 0..7 :
             /\ Occupant(rank, file) = AfterRuyLopez(rank, file)
             /\ pieces[RFToIndex(rank, file)] /= NoPiece =>
                   StandsOn(pieces, objs, pieces[RFToIndex(rank, file)],
                            rank, file)

\* C20, its case: the five calls of the Ruy Lopez opening have been made
\* and the white Bishop stands on b5.
C20_Witness ==
    /\ last.played = RuyLopez
    /\ last.res = "ok"
    /\ Occupant(4, 1) = <<"B", WHITE>>

\* The direct call that is being made is op, on a square of the board.
Direct(op) ==
    /\ last.branch = "args" /\ last.op = op /\ last'.branch = "direct"
    /\ last.args[Len(last.args) - 1] \in 0..7
    /\ last.args[Len(last.args)] \in 0..7

\* The piece on the square the last two arguments of the direct call name.
Target == pieces[RFToIndex(last.args[Len(last.args) - 1],
                           last.args[Len(last.args)])]

\* C21: take() on the square of a King fails with KingRemoval and leaves
\* the King in the square array on its square, its recorded square intact.
C21_KingNotRemoved ==
    [][Direct("take") /\ Target /= NoPiece /\ objs[Target].name = "K" =>
          /\ last'.res = "KingRemoval"
          /\ pieces' = pieces
          /\ objs'[Target] = objs[Target]]_vars

\* The direct call that is being made places a King of a colour that has
\* a registered King: the construction of a King, or put() of a King.
PlacesSecondKing ==
    \/ /\ Direct("new")
       /\ last.args[1] = "K"
       /\ by_piece["K"][last.args[2]] /= NoPiece
    \/ /\ Direct("put")
       /\ objs[last.args[1]].name = "K"
       /\ by_piece["K"][objs[last.args[1]].color] /= NoPiece

\* C22: placing a King of a colour that has a registered King fails with
\* DuplicateKing and leaves the square array, the registration of the
\* Kings and the recorded square of every piece unchanged.
C22_SecondKingRefused ==
    [][PlacesSecondKing =>
          /\ last'.res = "DuplicateKing"
          /\ pieces' = pieces
          /\ by_piece'["K"] = by_piece["K"]
          /\ \A id \in 1..Len(objs) : objs'[id] = objs[id]]_vars

\* The coordinate <<rank, file>> lies outside the board.
Outside(rank, file) == rank \notin 0..7 \/ file \notin 0..7

\* C23: a direct call of get, put, take or move with a coordinate outside
\* the board has failed with InvalidSquare; move looks at its destination
\* only when its source square holds a piece.
C23_OutsideRefused ==
    last.branch = "direct" =>
       /\ (/\ last.op \in {"get", "take", "new", "put"}
           /\ Outside(last.args[Len(last.args) - 1],
                      last.args[Len(last.args)]))
          => last.res = "InvalidSquare"
       /\ (last.op = "move" /\ Outside(last.args[1], last.args[2]))
          => last.res = "InvalidSquare"
       /\ (last.op = "move" /\ Outside(last.args[3], last.args[4]))
          => last.res \in {"InvalidSquare", "EmptySourceSquare"}

\* C24: take() on an empty square of the board fails with the error of an
\* empty square and leaves the position unchanged.
C24_EmptyTakeRefused ==
    [][Direct("take") /\ Target = NoPiece =>
          /\ last'.res = "EmptySquare"
          /\ Position' = Position]_vars

\* The text of the call that is being made.
Played == last'.played[Len(last'.played)]

\* The whole text t is a move of the grammar: kind, disambiguator in a-h or
\* 1-8, capture marker, destination, promotion suffix, check marker, the
\* destination alone being required; or a castling token with or without
\* the check marker.
WellFormed(t) ==
    \/ t \in CastleTexts
    \/ \E k \in {0, 1}, d \in {0, 1}, x \in {0, 1}, p \in {0, 2},
          c \in {0, 1} :
          /\ Len(t) = k + d + x + 2 + p + c
          /\ k = 1 => InKind(t[1])
          /\ d = 1 => InFile(t[k + 1]) \/ InRank(t[k + 1])
          /\ x = 1 => t[k + d + 1] = "x"
          /\ InFile(t[k + d + x + 1])
          /\ InRank(t[k + d + x + 2])
          /\ p = 2 => /\ t[k + d + x + 3] = "="
                      /\ InPromotion(t[k + d + x + 4])
          /\ c = 1 => t[Len(t)] = "+"

\* C25: a call whose text is not, as a whole, a move of the grammar or a
\* castling token fails with BadNotation and leaves the position unchanged.
C25_OnlyWholeTextsApply ==
    [][Called /\ ~WellFormed(Played) =>
          /\ last'.res = "BadNotation"
          /\ Position' = Position]_vars

\* The text t is a move of the grammar followed by a promotion suffix that
\* names a kind other than N, B, R or Q, with or without the check marker.
BadSuffix(t) ==
    \E n \in 3..(Len(t) - 1) :
       /\ t[1] /= "O"
       /\ WellFormed(SubSeq(t, 1, n - 1))
       /\ t[n] = "="
       /\ ~InPromotion(t[n + 1])
       /\ Len(t) = n + 1 \/ (Len(t) = n + 2 /\ t[n + 2] = "+")

\* C26: a call whose text carries a promotion suffix naming a kind other
\* than N, B, R or Q fails with PromotionInvalid.
C26_BadSuffixRefused ==
    [][Called /\ BadSuffix(Played) => last'.res = "PromotionInvalid"]_vars

\* The kinds of failure movePGN has a name for.
NamedKinds ==
    {"BadNotation", "EmptySourceSquare", "ImpossibleCapture", "IllegalMove",
     "PromotionInvalid", "CastleUnavailable", "KingRemoval", "InvalidSquare"}

\* C27: every call of movePGN that has failed has failed with one of the
\* named kinds of error.
C27_FailuresAreNamed ==
    last.op = "movePGN" /\ last.res /= "ok" => last.res \in NamedKinds

\* The piece reach() has been called on, and the colour of what stands on
\* a square, NoColor for an empty square.
Reacher == objs[last.found]

ColorOn(rank, file) ==
    IF pieces[RFToIndex(rank, file)] = NoPiece THEN NoColor
    ELSE objs[pieces[RFToIndex(rank, file)]].color

\* The direction a Pawn of the colour advances in.
Forward(color) == IF color = WHITE THEN 1 ELSE 0 - 1

\* The cases in which a Pawn reaches the target: one step forward onto an
\* empty square, two steps forward from its starting rank over an empty
\* square onto an empty square, one step diagonally forward onto an enemy
\* piece as a capture.
PawnReaches ==
    LET rank == last.dest[1]
        file == last.dest[2]
        fwd == Forward(Reacher.color)
    IN  \/ /\ ~last.capture
           /\ file = Reacher.file
           /\ rank = Reacher.rank + fwd
           /\ ColorOn(rank, file) = NoColor
        \/ /\ ~last.capture
           /\ file = Reacher.file
           /\ Reacher.rank = (IF Reacher.color = WHITE THEN 1 ELSE 6)
           /\ rank = Reacher.rank + 2 * fwd
           /\ ColorOn(Reacher.rank + fwd, file) = NoColor
           /\ ColorOn(rank, file) = NoColor
        \/ /\ last.capture
           /\ Abs(file - Reacher.file) = 1
           /\ rank = Reacher.rank + fwd
           /\ ColorOn(rank, file) = Other(Reacher.color)

\* C28: Pawn.reach has returned True exactly in the cases of PawnReaches.
C28_PawnReach ==
    last.branch = "reach" /\ Reacher.name = "P" =>
        (last.res = "True" <=> PawnReaches)

\* The target lies on a line of the Rook, Bishop or Queen reach() has been
\* called on.
OnLineOf(name, dr, df) ==
    \/ name \in {"R", "Q"} /\ (dr = 0 \/ df = 0)
    \/ name \in {"B", "Q"} /\ Abs(dr) = Abs(df)

\* The cases in which a Rook, Bishop or Queen reaches the target: another
\* square of one of its lines, with every square strictly between empty,
\* that is empty or holds an enemy piece.
SliderReaches ==
    LET dr == last.dest[1] - Reacher.rank
        df == last.dest[2] - Reacher.file
        far == IF Abs(dr) > Abs(df) THEN Abs(dr) ELSE Abs(df)
    IN  /\ <<dr, df>> /= <<0, 0>>
        /\ OnLineOf(Reacher.name, dr, df)
        /\ \A i \in 1..(far - 1) :
              ColorOn(Reacher.rank + i * Sign(dr),
                      Reacher.file + i * Sign(df)) = NoColor
        /\ ColorOn(last.dest[1], last.dest[2]) /= Reacher.color

\* C29: reach() of a Rook, Bishop or Queen has returned True in the cases
\* of SliderReaches and False in every other case.
C29_SliderReach ==
    last.branch = "reach" /\ Reacher.name \in {"R", "B", "Q"} =>
        last.res = (IF SliderReaches THEN "True" ELSE "False")

\* The target is one of the squares next to the King reach() has been
\* called on.
NextToKing ==
    /\ Abs(last.dest[1] - Reacher.rank) <= 1
    /\ Abs(last.dest[2] - Reacher.file) <= 1
    /\ last.dest /= <<Reacher.rank, Reacher.file>>

\* C30: King.reach has returned True for the squares next to the King and
\* False for every other square, the King's own square included.
C30_KingReach ==
    last.branch = "reach" /\ Reacher.name = "K" =>
        last.res = (IF NextToKing THEN "True" ELSE "False")

\* The slider pinned() has been called on, and the enemy King.
Slider == objs[last.args[1]]

EnemyKing == objs[by_piece["K"][Other(Slider.color)]]

\* The pieces on the squares strictly between the slider and the enemy
\* King, when they share a line the slider moves along; none otherwise.
Between ==
    LET dr == EnemyKing.rank - Slider.rank
        df == EnemyKing.file - Slider.file
        far == IF Abs(dr) > Abs(df) THEN Abs(dr) ELSE Abs(df)
    IN  IF OnLineOf(Slider.name, dr, df)
        THEN {pieces[RFToIndex(Slider.rank + i * Sign(dr),
                               Slider.file + i * Sign(df))] :
                 i \in 1..(far - 1)} \ {NoPiece}
        ELSE {}

\* C31: pinned() of a Rook, Bishop or Queen has returned the piece between
\* the slider and the enemy King when exactly one square strictly between
\* them on a line of the slider is occupied, and no piece otherwise.
C31_PinnedIsOnlyBlocker ==
    last.branch = "pinned" =>
        /\ last.res = "ok"
        /\ IF Cardinality(Between) = 1 THEN last.found \in Between
           ELSE last.found = NoPiece

\* C31, its case: a Queen three squares from the King on a diagonal has
\* pinned the only piece between them, with two more pieces on the board.
C31_Witness ==
    /\ last.branch = "pinned"
    /\ Slider.name = "Q"
    /\ Abs(Slider.rank - EnemyKing.rank) = 3
    /\ Abs(Slider.file - EnemyKing.file) = 3
    /\ last.found /= NoPiece
    /\ Len(objs) = 5

\* The number of pieces on the square array.
OnBoard(squares) ==
    Cardinality({i \in DOMAIN squares : squares[i] /= NoPiece})

\* C32: a successful movePGN call changes the number of pieces on the
\* square array by -1 when the text has the capture marker and by 0
\* otherwise, and a move without the marker lands on an empty square.
C32_CountFollowsMarker ==
    [][Called /\ last'.res = "ok" =>
          /\ OnBoard(pieces') - OnBoard(pieces)
                 = (IF last'.capture THEN 0 - 1 ELSE 0)
          /\ last'.branch = "move" /\ ~last'.capture => last'.destEmpty]_vars

\* The pieces that stand on the squares before and on none of the squares
\* after.
Gone(before, after) ==
    {before[i] : i \in DOMAIN before} \ ({after[i] : i \in DOMAIN after}
                                           \cup {NoPiece})

\* C33: every piece a successful capture has removed, the capturing piece
\* that a promotion replaces aside, is of the colour opposite to the
\* mover's.
C33_CapturedIsEnemy ==
    [][Called /\ last'.res = "ok" /\ last'.capture =>
          \A id \in Gone(pieces, pieces') \ {last'.found} :
              objs[id].color = Other(last'.player)]_vars

\* The piece on a square belongs to the side that is not to move.
Opponents(rank, file) ==
    /\ pieces[RFToIndex(rank, file)] /= NoPiece
    /\ objs[pieces[RFToIndex(rank, file)]].color = Other(to_play)

\* C34: a successful castle relocates only a King and a Rook of the side to
\* move, and a castling call made when the piece on the e-file square or on
\* the corner of the mover's home rank belongs to the opponent fails with
\* CastleUnavailable.
C34_CastleOwnPieces ==
    [][Called /\ last'.branch \in {"O-O", "O-O-O"} =>
          /\ last'.res = "ok" =>
                \A id \in Ids :
                    objs'[id] /= objs[id] =>
                        /\ objs[id].name \in {"K", "R"}
                        /\ objs[id].color = to_play
          /\ \/ Opponents(Home(to_play), 4)
             \/ Opponents(Home(to_play), CornerFile(last'.branch))
             => last'.res = "CastleUnavailable"]_vars

====
